---- MODULE Spec2Model ----
(***************************************************************************)
(* A model of the Cookly backend: the request pipeline (timeout guard,     *)
(* input sanitization, content-type validation, rate limiting, body        *)
(* parsing, routing, error translation, fallback 404), the error           *)
(* translator's taxonomy and the ingredient matcher.                       *)
(*                                                                         *)
(* Each part of the program has its own specification over its own group   *)
(* of variables; the other groups stay at their idle values.               *)
(***************************************************************************)
EXTENDS Integers, Sequences, FiniteSets, TLC

VARIABLES
    treq,         \* timeout guard: per request, the state of res and its timers
    mstore,       \* matcher: the Recipe collection, in insertion order
    mreq,         \* matcher: the last search request (NoSearch before any)
    mres,         \* matcher: the recipes the last search responded with
    eerr,         \* error translator: the error passed to next(err)
    eenv,         \* error translator: config.nodeEnv
    eres,         \* error translator: the response sent (NoResponse before)
    preq,         \* pipeline: the request on the wire
    pbody,        \* pipeline: req.body
    pquery,       \* pipeline: req.query
    ppc,          \* pipeline: the stage the request is at
    pran,         \* pipeline: the stages that have run
    pres,         \* pipeline: the response sent (NoResponse before)
    perr,         \* pipeline: the error thrown or passed to next(err)
    penv,         \* pipeline: config.nodeEnv
    rhits,        \* rate limiting: each limiter's count of each client's hits
    rpassed,      \* rate limiting: the requests each limiter let through
    rpending,     \* rate limiting: requests between the two limiters
    rlast,        \* rate limiting: what the latest request met
    rgen,         \* AI route: generateRecipe invocations per client in the present minute
    rage,         \* retry-after: per limiter and client, the ms since the window opened
    rretry,       \* retry-after: the latest 429 body and the seconds the window had left
    greq,         \* auth gate: the request
    gpc,          \* auth gate: the stage the request is at
    gchain,       \* auth gate: the middleware of the matched route still to run
    gres,         \* auth gate: the response sent (NoResponse before)
    guser,        \* auth gate: the identity attached to the request
    ginvoked,     \* auth gate: the domain handler invoked ("none" before)
    gwrites,      \* auth gate: the collections written for the request
    kdoc,         \* ratings: the stored recipe document
    kreq,         \* ratings: per request in flight, the loaded copy and the input
    kops,         \* ratings: how many rateRecipe requests have started
    cdocs,        \* cooking time: the stored recipes, by id
    susers,       \* save relation: the stored users (savedRecipes, version)
    srecs,        \* save relation: the stored recipes (savedByUsers, version)
    sreq,         \* save relation: per request in flight, its step, copies and outcome
    sops,         \* save relation: how many requests have started
    sfailed,      \* save relation: whether a store write has failed
    atext,        \* AI reply: the remote text, as pieces
    apayload,     \* AI reply: the JSON value the text carries
    aout,         \* AI reply: what parseRecipeResponse returned
    nreq,         \* generation: the request in hand (saveToDatabase, step)
    nstore,       \* generation: the stored recipe documents
    nwrites,      \* generation: store writes attempted for the request in hand
    nres,         \* generation: the response
    nops,         \* generation: how many requests have started
    ustore,       \* accounts: the stored users, in order of creation
    ureq,         \* accounts: the register requests in flight
    ulast,        \* accounts: the last login, profile update or password change
    uanswers,     \* accounts: per email, the answers given to register requests
    uops,         \* accounts: how many operations have started
    dserver,      \* shutdown: the HTTP server (listening, closing, closed)
    dconns,       \* shutdown: open connections
    dstore,       \* shutdown: the store connection (open, closing, closed)
    dpending,     \* shutdown: callbacks waiting to run
    dtimer,       \* shutdown: ticks run by the force timer, -1 if not set
    dsignal,      \* shutdown: the signals received
    dexit,        \* shutdown: the exit code, -1 while the process runs
    vstore,       \* fetch: the stored recipes (views, isPublic, createdBy)
    vreq,         \* fetch: the GET /api/recipes/:id requests in flight
    vserved,      \* fetch: per recipe, fetches served to others than its creator
    vlisted,      \* fetch: what the last list or search returned
    vfailed,      \* fetch: whether a store operation has failed
    vops,         \* fetch: how many requests have started
    bsaved,       \* saved list: the savedRecipes array of the user
    bres          \* saved list: the last answer of GET /api/recipes/saved, with its request

timeoutVars == <<treq>>
matcherVars == <<mstore, mreq, mres>>
errorVars == <<eerr, eenv, eres>>
pipelineVars == <<preq, pbody, pquery, ppc, pran, pres, perr, penv>>
rateVars == <<rhits, rpassed, rpending, rlast>>
aiVars == <<rgen>>
clockVars == <<rage, rretry>>
gateVars == <<greq, gpc, gchain, gres, guser, ginvoked, gwrites>>
ratingVars == <<kdoc, kreq, kops>>
cookingVars == <<cdocs>>
saveVars == <<susers, srecs, sreq, sops, sfailed>>
parseVars == <<atext, apayload, aout>>
genVars == <<nreq, nstore, nwrites, nres, nops>>
acctVars == <<ustore, ureq, ulast, uanswers, uops>>
downVars == <<dserver, dconns, dstore, dpending, dtimer, dsignal, dexit>>
fetchVars == <<vstore, vreq, vserved, vlisted, vfailed, vops>>
bookVars == <<bsaved, bres>>
vars == <<treq, mstore, mreq, mres, eerr, eenv, eres,
          preq, pbody, pquery, ppc, pran, pres, perr, penv,
          rhits, rpassed, rpending, rlast,
          rgen,
          rage, rretry,
          greq, gpc, gchain, gres, guser, ginvoked, gwrites,
          kdoc, kreq, kops,
          cdocs,
          susers, srecs, sreq, sops, sfailed,
          atext, apayload, aout,
          nreq, nstore, nwrites, nres, nops,
          ustore, ureq, ulast, uanswers, uops,
          dserver, dconns, dstore, dpending, dtimer, dsignal, dexit,
          vstore, vreq, vserved, vlisted, vfailed, vops,
          bsaved, bres>>

\* What an action of one part leaves alone: the variables of the other parts.
exceptTimeout == <<matcherVars, errorVars, pipelineVars, rateVars, aiVars, clockVars, gateVars, ratingVars, cookingVars, saveVars, parseVars, genVars, acctVars, downVars, fetchVars, bookVars>>
exceptMatcher == <<timeoutVars, errorVars, pipelineVars, rateVars, aiVars, clockVars, gateVars, ratingVars, cookingVars, saveVars, parseVars, genVars, acctVars, downVars, fetchVars, bookVars>>
exceptError == <<timeoutVars, matcherVars, pipelineVars, rateVars, aiVars, clockVars, gateVars, ratingVars, cookingVars, saveVars, parseVars, genVars, acctVars, downVars, fetchVars, bookVars>>
exceptPipeline == <<timeoutVars, matcherVars, errorVars, rateVars, aiVars, clockVars, gateVars, ratingVars, cookingVars, saveVars, parseVars, genVars, acctVars, downVars, fetchVars, bookVars>>
exceptRate == <<timeoutVars, matcherVars, errorVars, pipelineVars, aiVars, clockVars, gateVars, ratingVars, cookingVars, saveVars, parseVars, genVars, acctVars, downVars, fetchVars, bookVars>>
exceptAi == <<timeoutVars, matcherVars, errorVars, pipelineVars, rateVars, clockVars, gateVars, ratingVars, cookingVars, saveVars, parseVars, genVars, acctVars, downVars, fetchVars, bookVars>>
exceptRateAi == <<timeoutVars, matcherVars, errorVars, pipelineVars, clockVars, gateVars, ratingVars, cookingVars, saveVars, parseVars, genVars, acctVars, downVars, fetchVars, bookVars>>
exceptRateClock == <<timeoutVars, matcherVars, errorVars, pipelineVars, aiVars, gateVars, ratingVars, cookingVars, saveVars, parseVars, genVars, acctVars, downVars, fetchVars, bookVars>>
exceptClock == <<timeoutVars, matcherVars, errorVars, pipelineVars, rateVars, aiVars, gateVars, ratingVars, cookingVars, saveVars, parseVars, genVars, acctVars, downVars, fetchVars, bookVars>>
exceptGate == <<timeoutVars, matcherVars, errorVars, pipelineVars, rateVars, aiVars, clockVars, ratingVars, cookingVars, saveVars, parseVars, genVars, acctVars, downVars, fetchVars, bookVars>>
exceptRating == <<timeoutVars, matcherVars, errorVars, pipelineVars, rateVars, aiVars, clockVars, gateVars, cookingVars, saveVars, parseVars, genVars, acctVars, downVars, fetchVars, bookVars>>
exceptCooking == <<timeoutVars, matcherVars, errorVars, pipelineVars, rateVars, aiVars, clockVars, gateVars, ratingVars, saveVars, parseVars, genVars, acctVars, downVars, fetchVars, bookVars>>
exceptSave == <<timeoutVars, matcherVars, errorVars, pipelineVars, rateVars, aiVars, clockVars, gateVars, ratingVars, cookingVars, parseVars, genVars, acctVars, downVars, fetchVars, bookVars>>
exceptParse == <<timeoutVars, matcherVars, errorVars, pipelineVars, rateVars, aiVars, clockVars, gateVars, ratingVars, cookingVars, saveVars, genVars, acctVars, downVars, fetchVars, bookVars>>
exceptGen == <<timeoutVars, matcherVars, errorVars, pipelineVars, rateVars, aiVars, clockVars, gateVars, ratingVars, cookingVars, saveVars, parseVars, acctVars, downVars, fetchVars, bookVars>>
exceptAcct == <<timeoutVars, matcherVars, errorVars, pipelineVars, rateVars, aiVars, clockVars, gateVars, ratingVars, cookingVars, saveVars, parseVars, genVars, downVars, fetchVars, bookVars>>
exceptDown == <<timeoutVars, matcherVars, errorVars, pipelineVars, rateVars, aiVars, clockVars, gateVars, ratingVars, cookingVars, saveVars, parseVars, genVars, acctVars, fetchVars, bookVars>>
exceptFetch == <<timeoutVars, matcherVars, errorVars, pipelineVars, rateVars, aiVars, clockVars, gateVars, ratingVars, cookingVars, saveVars, parseVars, genVars, acctVars, downVars, bookVars>>
exceptBook == <<timeoutVars, matcherVars, errorVars, pipelineVars, rateVars, aiVars, clockVars, gateVars, ratingVars, cookingVars, saveVars, parseVars, genVars, acctVars, downVars, fetchVars>>

Range(s) == {s[i] : i \in DOMAIN s}

(***************************************************************************)
(* TIMEOUT GUARD  (src/src/middleware/timeout.js, src/server.js)           *)
(***************************************************************************)

\* Requests in flight at the same time, each with its own res and timers.
Requests == {"r1", "r2"}

\* app.use(timeout(30000)): every request gets this timer.
DefaultTimeout == 30000
\* app.post("/test-recipe", timeout(60000), ...): a second timer on that route.
RouteTimeout == 60000
\* res.status(408) in the timer's callback.
TimeoutStatus == 408

\* One step of the clock, in ms, and how many steps a request is followed.
TickMs == 10000
MaxTicks == 7

TimeoutRoutes == {"/api/recipes", "/test-recipe"}

\* The statuses a handler answers with.
HandlerStatuses == {200, 500}

\* The timers the middleware chain of a route starts: the global one, and the
\* route's own where the route mounts timeout(60000).
TimersOf(route) ==
    IF route = "/test-recipe" THEN {DefaultTimeout, RouteTimeout}
    ELSE {DefaultTimeout}

TIdle ==
    [phase |-> "idle", route |-> "/api/recipes", elapsed |-> 0, timers |-> {},
     headersSent |-> FALSE, sent |-> <<>>, handler |-> "none",
     guardFired |-> FALSE, lateAttempt |-> FALSE, closed |-> FALSE]

\* The timer callback's condition: if (!res.headersSent).
TimeoutShouldSendInverted(headersSent) == headersSent
TimeoutShouldSend(headersSent) == ~headersSent

\* res.status(s).json(body) through the wrappers the timeout middleware
\* installed: every wrapper clears its timer, then the original json runs.
\* Once the headers are sent, express's send throws ERR_HTTP_HEADERS_SENT
\* on setting Content-Type and nothing is written.
ResJson(q, status) ==
    IF q.headersSent
    THEN [q EXCEPT !.timers = {}]
    ELSE [q EXCEPT !.timers = {}, !.headersSent = TRUE,
                   !.sent = Append(q.sent, status)]

\* The request enters the chain: the timers start and the handler runs.
TEnter(r, route) ==
    /\ treq[r].phase = "idle"
    /\ treq' = [treq EXCEPT ![r] =
                  [TIdle EXCEPT !.phase = "inflight", !.route = route,
                                !.timers = TimersOf(route),
                                !.handler = "running"]]
    /\ UNCHANGED exceptTimeout

\* A timer is due: its duration has elapsed and it was not cleared.
Due(q) == {d \in q.timers : q.elapsed * TickMs >= d}

\* Time passes for every request in flight; a due timer fires first.
TTick ==
    /\ \E r \in Requests : treq[r].phase = "inflight"
    /\ \A r \in Requests :
          treq[r].phase = "inflight" =>
             /\ treq[r].elapsed < MaxTicks
             /\ Due(treq[r]) = {}
    /\ treq' = [r \in Requests |->
                  IF treq[r].phase = "inflight"
                  THEN [treq[r] EXCEPT !.elapsed = @ + 1]
                  ELSE treq[r]]
    /\ UNCHANGED exceptTimeout

\* setTimeout's callback (timeout.js 5-24).
TTimerFire(r, d) ==
    /\ treq[r].phase = "inflight"
    /\ d \in Due(treq[r])
    /\ LET q == [treq[r] EXCEPT !.timers = @ \ {d},
                                !.guardFired = @ \/ ~treq[r].headersSent]
       IN treq' = [treq EXCEPT ![r] =
                     IF TimeoutShouldSend(q.headersSent)
                     THEN ResJson(q, TimeoutStatus)
                     ELSE q]
    /\ UNCHANGED exceptTimeout

\* The handler answers, in time or late.
THandlerRespond(r, status) ==
    /\ treq[r].phase = "inflight"
    /\ treq[r].handler = "running"
    /\ LET q == treq[r]
       IN treq' = [treq EXCEPT ![r] =
                     [ResJson(q, status) EXCEPT
                         !.handler = IF q.headersSent THEN "threw" ELSE "responded",
                         !.lateAttempt = q.headersSent]]
    /\ UNCHANGED exceptTimeout

\* The client goes away: res emits "close" and the timers are cleared.
TClientClose(r) ==
    /\ treq[r].phase = "inflight"
    /\ ~treq[r].closed
    /\ treq' = [treq EXCEPT ![r] = [@ EXCEPT !.timers = {}, !.closed = TRUE]]
    /\ UNCHANGED exceptTimeout

TimeoutIdle == treq = [r \in Requests |-> TIdle]

NextTimeout ==
    \/ \E r \in Requests, route \in TimeoutRoutes : TEnter(r, route)
    \/ TTick
    \/ \E r \in Requests, d \in {DefaultTimeout, RouteTimeout} : TTimerFire(r, d)
    \/ \E r \in Requests, s \in HandlerStatuses : THandlerRespond(r, s)
    \/ \E r \in Requests : TClientClose(r)


(***************************************************************************)
(* RECIPE MATCHER  (Recipe.findByIngredients, getRecipesByIngredients)     *)
(***************************************************************************)

\* How many recipes the collection holds at most.
MaxRecipes == 2

\* Ingredient texts, as sequences of characters.
W_Chicken == <<"C", "h", "i", "c", "k", "e", "n">>
W_rice == <<"r", "i", "c", "e">>
W_broccoli == <<"b", "r", "o", "c", "c", "o", "l", "i">>
W_chicken == <<"c", "h", "i", "c", "k", "e", "n">>
W_RIC == <<"R", "I", "C">>
W_egg == <<"e", "g", "g">>

\* The inputIngredients a stored recipe may carry.
StoredLists ==
    {<<W_Chicken>>, <<W_rice>>, <<W_broccoli>>,
     <<W_Chicken, W_broccoli>>, <<W_Chicken, W_rice>>, <<W_rice, W_broccoli>>}

\* The ingredient lists a search may request (1 to maxIngredients strings).
RequestedLists ==
    {<<W_chicken>>, <<W_RIC>>, <<W_egg>>,
     <<W_chicken, W_RIC>>, <<W_chicken, W_egg>>, <<W_RIC, W_egg>>}

MinMatches == {1, 2}
Skips == {0, 1}
Limits == {1, 10}

NoSearch == [ingredients |-> <<>>, limit |-> 0, skip |-> 0, minMatch |-> 0]

\* String.prototype.toLowerCase on one character of the alphabet in use.
Lower(c) ==
    CASE c = "C" -> "c"
      [] c = "R" -> "r"
      [] c = "I" -> "i"
      [] OTHER -> c

\* new RegExp(ing, "i"): a BSON regular expression.
MkRegExp(ing) == [bson |-> "regex", source |-> ing, flags |-> "i"]

\* A BSON string.
MkString(s) == [bson |-> "string", chars |-> s]

\* ingredients.map((ing) => new RegExp(ing, "i"))
RegExps(ingredients) == [i \in DOMAIN ingredients |-> MkRegExp(ingredients[i])]

\* One pattern character against one subject character ("." is any character).
CharMatches(p, c, flags) ==
    \/ p = "."
    \/ IF flags = "i" THEN Lower(p) = Lower(c) ELSE p = c

\* Whether the regular expression matches somewhere in the string.
RegExpTest(re, s) ==
    \E off \in 0..(Len(s) - Len(re.source)) :
        \A i \in 1..Len(re.source) :
            CharMatches(re.source[i], s[off + i], re.flags)

\* The query operator { field: { $in: [regexes] } } on an array field: some
\* element of the array matches some regular expression.
QueryInRegExps(array, regexes) ==
    \E i \in DOMAIN array, j \in DOMAIN regexes : RegExpTest(regexes[j], array[i])

\* The aggregation expression { $in: [value, array] }: the value equals an
\* element of the array. It compares BSON values; it does not match regular
\* expressions against strings.
ExprIn(value, array) == \E j \in DOMAIN array : array[j] = value

\* $size of $filter over inputIngredients with cond $in: ["$$this", regexes].
MatchCount(recipe, regexes) ==
    Cardinality({i \in DOMAIN recipe.inputIngredients :
                    ExprIn(MkString(recipe.inputIngredients[i]), regexes)})

\* $sort: { matchCount: -1, createdAt: -1 }
SortsBefore(a, b) ==
    \/ a.matchCount > b.matchCount
    \/ a.matchCount = b.matchCount /\ a.createdAt > b.createdAt

RECURSIVE InsertSorted(_, _)
InsertSorted(x, s) ==
    IF s = <<>> THEN <<x>>
    ELSE IF SortsBefore(x, Head(s)) THEN <<x>> \o s
    ELSE <<Head(s)>> \o InsertSorted(x, Tail(s))

RECURSIVE SortStage(_)
SortStage(s) ==
    IF s = <<>> THEN <<>>
    ELSE InsertSorted(s[Len(s)], SortStage(SubSeq(s, 1, Len(s) - 1)))

\* $skip then $limit
SkipStage(s, skip) == SubSeq(s, skip + 1, Len(s))
LimitStage(s, limit) == SubSeq(s, 1, IF limit < Len(s) THEN limit ELSE Len(s))

\* Recipe.findByIngredients(ingredients, {limit, skip, minMatch}): the
\* aggregation pipeline over the collection.
findByIngredients(store, ingredients, limit, skip, minMatch) ==
    LET regexes == RegExps(ingredients)
        matched == SelectSeq(store, LAMBDA r :
                       QueryInRegExps(r.inputIngredients, regexes) /\ r.isPublic)
        counted == [i \in DOMAIN matched |->
                       [id |-> matched[i].id,
                        createdAt |-> matched[i].createdAt,
                        matchCount |-> MatchCount(matched[i], regexes)]]
        enough == SelectSeq(counted, LAMBDA r : r.matchCount >= minMatch)
    IN LimitStage(SkipStage(SortStage(enough), skip), limit)

\* Recipe.create: a new document, stamped with its creation time.
MCreateRecipe(ings, pub) ==
    /\ Len(mstore) < MaxRecipes
    /\ mstore' = Append(mstore,
                   [id |-> Len(mstore) + 1, inputIngredients |-> ings,
                    isPublic |-> pub, createdAt |-> Len(mstore) + 1])
    /\ UNCHANGED <<mreq, mres>>
    /\ UNCHANGED exceptMatcher

\* POST /api/recipes/search-by-ingredients with a body that passes validation.
getRecipesByIngredients(ingredients, limit, skip, minMatch) ==
    /\ mreq' = [ingredients |-> ingredients, limit |-> limit, skip |-> skip,
                minMatch |-> minMatch]
    /\ mres' = [status |-> 200,
                recipes |-> findByIngredients(mstore, ingredients, limit, skip,
                                              minMatch)]
    /\ UNCHANGED mstore
    /\ UNCHANGED exceptMatcher

MatcherIdle ==
    /\ mstore = <<>>
    /\ mreq = NoSearch
    /\ mres = [status |-> 0, recipes |-> <<>>]

NextMatcher ==
    \/ \E ings \in StoredLists, pub \in BOOLEAN : MCreateRecipe(ings, pub)
    \/ \E ings \in RequestedLists, l \in Limits, s \in Skips, m \in MinMatches :
          getRecipesByIngredients(ings, l, s, m)

\* The match count of the specification: the stored input ingredients that
\* contain, ignoring case, at least one requested ingredient.
ContainsIgnoringCase(s, t) ==
    \E off \in 0..(Len(s) - Len(t)) :
        \A i \in 1..Len(t) : Lower(s[off + i]) = Lower(t[i])

SpecMatchCount(recipe, ingredients) ==
    Cardinality({i \in DOMAIN recipe.inputIngredients :
                    \E j \in DOMAIN ingredients :
                        ContainsIgnoringCase(recipe.inputIngredients[i],
                                             ingredients[j])})

\* A search whose page covers the whole result.
Unpaginated == mreq # NoSearch /\ mreq.skip = 0 /\ mreq.limit >= Len(mstore)

(***************************************************************************)
(* ERROR TRANSLATOR  (errorHandler)                                        *)
(***************************************************************************)

\* A property the error object does not have; a missing status is 0, which
\* the code's || treats as it treats undefined.
Undef == "undefined"
NoStatus == 0

NoResponse == [status |-> 0]

\* Messages are sequences of words; the empty sequence is the empty string.
Includes(msg, phrase) ==
    \E off \in 0..(Len(msg) - Len(phrase)) :
        \A i \in 1..Len(phrase) : msg[off + i] = phrase[i]

M_pool == <<"connection", "pool", "exhausted">>
M_hash == <<"bcrypt", "hash", "mismatch", "for", "user", "42">>
M_ai == <<"Failed", "to", "generate", "recipe:", "Azure", "OpenAI", "service",
          "not", "initialized">>
M_cors == <<"Not", "allowed", "by", "CORS">>
M_empty == <<>>

ErrorMessages == {M_pool, M_hash, M_ai, M_cors, M_empty}

ErrorNames ==
    {"Error", "CastError", "ValidationError", "JsonWebTokenError",
     "TokenExpiredError", "MulterError", "MongoError", "MongooseError",
     "SyntaxError", "TypeError"}

\* err.code: the store's duplicate-key number (written "11000"), a socket
\* error's code, or an upload error's.
SystemCodes == {Undef, "11000", "ECONNRESET", "ETIMEDOUT", "ENOTFOUND"}
MulterCodes ==
    {"LIMIT_FILE_SIZE", "LIMIT_FILE_COUNT", "LIMIT_UNEXPECTED_FILE",
     "LIMIT_PART_COUNT"}

\* <<err.status, err.statusCode>>
StatusPairs ==
    {<<0, 0>>, <<400, 400>>, <<413, 413>>, <<429, 429>>, <<429, 0>>,
     <<0, 429>>, <<503, 503>>, <<0, 502>>}

ErrorTypes == {Undef, "entity.too.large", "entity.parse.failed"}

Envs == {"development", "production"}

\* The errors that reach the translator.
Errors ==
    {[name |-> n, message |-> m, code |-> c, status |-> sp[1],
      statusCode |-> sp[2], type |-> t, body |-> b,
      keyValue |-> IF c = "11000"
                   THEN [field |-> "email", value |-> "a@b.co"] ELSE Undef,
      errors |-> IF n = "ValidationError"
                 THEN <<<<"Name is required">>, <<"Please enter a valid email">>>>
                 ELSE Undef,
      value |-> IF n = "CastError" THEN "xyz" ELSE Undef] :
        n \in ErrorNames, m \in ErrorMessages,
        c \in SystemCodes \cup MulterCodes,
        sp \in StatusPairs, t \in ErrorTypes, b \in BOOLEAN}

\* The errors the program raises: an upload code comes with a MulterError.
RaisedErrors == {e \in Errors : e.code \in MulterCodes <=> e.name = "MulterError"}

\* field.charAt(0).toUpperCase() + field.slice(1)
Capitalize(field) ==
    CASE field = "email" -> "Email"
      [] field = "name" -> "Name"
      [] OTHER -> field

\* Object.values(err.errors).map((val) => val.message).join(", ")
RECURSIVE JoinMessages(_)
JoinMessages(ms) ==
    IF ms = <<>> THEN <<>>
    ELSE IF Len(ms) = 1 THEN ms[1]
    ELSE ms[1] \o <<", ">> \o JoinMessages(Tail(ms))

\* a || b on messages: the empty string is falsy.
OrMessage(a, b) == IF a # <<>> THEN a ELSE b

MulterMessage(code) ==
    CASE code = "LIMIT_FILE_SIZE" ->
            <<"File size too large. Maximum allowed size is 10MB.">>
      [] code = "LIMIT_FILE_COUNT" -> <<"Too many files uploaded.">>
      [] code = "LIMIT_UNEXPECTED_FILE" -> <<"Unexpected file field.">>
      [] OTHER -> <<"File upload error">>

\* The default message of the switch on err.statusCode || err.status.
SwitchDefault(statusCode) ==
    CASE statusCode = 400 -> <<"Bad request. Please check your input.">>
      [] statusCode = 401 -> <<"Unauthorized. Please authenticate.">>
      [] statusCode = 403 ->
            <<"Forbidden. You don't have permission to access this resource.">>
      [] statusCode = 404 -> <<"Resource not found.">>
      [] statusCode = 409 -> <<"Conflict. Resource already exists.">>
      [] statusCode = 422 -> <<"Unprocessable entity. Please check your input.">>
      [] statusCode = 500 -> <<"Internal server error. Please try again later.">>
      [] statusCode = 502 -> <<"Bad gateway. Please try again later.">>
      [] statusCode = 503 ->
            <<"Service temporarily unavailable. Please try again later.">>
      [] statusCode = 504 -> <<"Gateway timeout. Please try again later.">>
      [] OTHER -> <<>>

CastErrorStatus == 404
DuplicateKeyStatus == 400
AIServiceStatus == 503
AIServiceMessage ==
    <<"AI service is temporarily unavailable. Please try again later.">>
DefaultStatus == 500
DefaultMessage == <<"An unexpected error occurred. Please try again later.">>

\* errorHandler, lines 797-969: the local `error` ({message, statusCode}) after
\* the chain of ifs, each of which replaces it.
TranslatedError(err) ==
    LET e0 == [message |-> err.message, statusCode |-> err.statusCode]
        e1 == IF err.name = "CastError"
              THEN [message |-> <<"Resource not found with id: ", err.value>>,
                    statusCode |-> CastErrorStatus]
              ELSE e0
        e2 == IF err.code = "11000"
              THEN [message |-> <<Capitalize(err.keyValue.field), " '",
                                  err.keyValue.value, "' already exists">>,
                    statusCode |-> DuplicateKeyStatus]
              ELSE e1
        e3 == IF err.name = "ValidationError"
              THEN [message |-> JoinMessages(err.errors), statusCode |-> 400]
              ELSE e2
        e4 == IF err.name = "JsonWebTokenError"
              THEN [message |->
                      <<"Invalid authentication token. Please log in again.">>,
                    statusCode |-> 401]
              ELSE e3
        e5 == IF err.name = "TokenExpiredError"
              THEN [message |->
                      <<"Authentication token has expired. Please log in again.">>,
                    statusCode |-> 401]
              ELSE e4
        e6 == IF err.name = "MulterError"
              THEN [message |-> MulterMessage(err.code), statusCode |-> 400]
              ELSE e5
        e7 == IF /\ err.message # <<>>
                 /\ \/ Includes(err.message, <<"Azure", "OpenAI">>)
                    \/ Includes(err.message, <<"OpenAI">>)
              THEN [message |-> AIServiceMessage, statusCode |-> AIServiceStatus]
              ELSE e6
        e8 == IF err.status = 429 \/ err.statusCode = 429
              THEN [message |->
                      <<"Too many requests. Please slow down and try again later.">>,
                    statusCode |-> 429]
              ELSE e7
        e9 == IF err.name = "MongoError" \/ err.name = "MongooseError"
              THEN [message |->
                      <<"Database connection error. Please try again later.">>,
                    statusCode |-> 503]
              ELSE e8
        e10 == IF err.code \in {"ECONNRESET", "ETIMEDOUT", "ENOTFOUND"}
               THEN [message |->
                       <<"Network connection error. Please check your internet connection and try again.">>,
                     statusCode |-> 503]
               ELSE e9
        e11 == IF err.type = "entity.too.large"
               THEN [message |->
                       <<"Request payload too large. Please reduce the size of your request.">>,
                     statusCode |-> 413]
               ELSE e10
        e12 == IF err.name = "SyntaxError" /\ err.status = 400 /\ err.body
               THEN [message |-> <<"Invalid JSON format in request body.">>,
                     statusCode |-> 400]
               ELSE e11
        e13 == IF err.message # <<>> /\ Includes(err.message, <<"CORS">>)
               THEN [message |->
                       <<"Cross-origin request blocked. Please check your request headers.">>,
                     statusCode |-> 403]
               ELSE e12
        sc == IF err.statusCode # NoStatus THEN err.statusCode ELSE err.status
    IN IF sc # NoStatus
       THEN [e13 EXCEPT !.message = OrMessage(@, SwitchDefault(sc))]
       ELSE e13

\* const statusCode = error.statusCode || 500
FinalStatusOfErr(err, error) ==
    IF err.statusCode # NoStatus THEN err.statusCode
    ELSE IF error.statusCode # NoStatus THEN error.statusCode
    ELSE DefaultStatus
FinalStatus(err, error) ==
    IF error.statusCode # NoStatus THEN error.statusCode ELSE DefaultStatus

\* errorHandler(err, req, res, next): the response it sends.
errorHandler(err, req, env) ==
    LET error == TranslatedError(err)
        statusCode == FinalStatus(err, error)
        message == OrMessage(error.message, DefaultMessage)
        base == [type |-> IF err.name # Undef THEN err.name ELSE "UnknownError",
                 timestamp |-> "now", path |-> req.originalUrl,
                 method |-> req.method, requestId |-> req.id]
        errorField ==
            IF env = "development"
            THEN [type |-> base.type, timestamp |-> base.timestamp,
                  path |-> base.path, method |-> base.method,
                  requestId |-> base.requestId,
                  stack |-> "stack", details |-> err]
            ELSE base
    IN [status |-> statusCode,
        body |-> [success |-> FALSE, message |-> message, error |-> errorField]]

\* The request the translator answers in the translator's own specification.
EReq == [originalUrl |-> "/api/auth/register", method |-> "POST", id |-> "id1"]

\* next(err) reaches app.use(errorHandler).
ETranslate ==
    /\ eres = NoResponse
    /\ eres' = errorHandler(eerr, EReq, eenv)
    /\ UNCHANGED <<eerr, eenv>>
    /\ UNCHANGED exceptError

ErrorIdle ==
    /\ eerr = CHOOSE e \in RaisedErrors : TRUE
    /\ eenv = "production"
    /\ eres = NoResponse

NextError == ETranslate

\* The signatures the translator tests, by the kind of failure each stands for.
Kinds(err) ==
    {k \in {"cast", "duplicate", "validation", "token", "upload", "ai",
            "ratelimit", "store", "network", "toolarge", "json", "cors"} :
        CASE k = "cast" -> err.name = "CastError"
          [] k = "duplicate" -> err.code = "11000"
          [] k = "validation" -> err.name = "ValidationError"
          [] k = "token" -> err.name \in {"JsonWebTokenError", "TokenExpiredError"}
          [] k = "upload" -> err.name = "MulterError"
          [] k = "ai" -> Includes(err.message, <<"OpenAI">>)
          [] k = "ratelimit" -> err.status = 429 \/ err.statusCode = 429
          [] k = "store" -> err.name \in {"MongoError", "MongooseError"}
          [] k = "network" -> err.code \in {"ECONNRESET", "ETIMEDOUT", "ENOTFOUND"}
          [] k = "toolarge" -> err.type = "entity.too.large"
          [] k = "json" -> err.name = "SyntaxError" /\ err.status = 400 /\ err.body
          [] k = "cors" -> Includes(err.message, <<"CORS">>)}

\* The taxonomy: the status of each kind.
TaxonomyStatus(k) ==
    CASE k = "cast" -> 404
      [] k = "validation" -> 400
      [] k = "duplicate" -> 400
      [] k = "token" -> 401
      [] k = "upload" -> 400
      [] k = "ai" -> 503
      [] k = "ratelimit" -> 429
      [] k = "store" -> 503
      [] k = "network" -> 503
      [] k = "toolarge" -> 413
      [] k = "json" -> 400

TaxonomyKinds ==
    {"cast", "duplicate", "validation", "token", "upload", "ai", "ratelimit",
     "store", "network", "toolarge", "json"}

(***************************************************************************)
(* REQUEST PIPELINE  (server.js, validation middleware, handlers)          *)
(***************************************************************************)

\* JSON values: a string, or an object mapping keys to values. Keys are
\* sequences of characters.
JStr == [t |-> "str", f |-> <<>>]
JObj(f) == [t |-> "obj", f |-> f]
JEmpty == JObj(<<>>)

K_name == <<"n", "a", "m", "e">>
K_where == <<"$", "w", "h", "e", "r", "e">>
K_gt == <<"$", "g", "t">>
K_dot == <<"a", ".", "b">>

\* The TEST_REGEX of express-mongo-sanitize, /^\$|\./, on a key.
IsProhibitedKey(key) ==
    \/ Len(key) > 0 /\ key[1] = "$"
    \/ "." \in Range(key)

\* mongoSanitize.sanitize(target): removes, at every depth, the keys that
\* begin with $ or contain a dot.
RECURSIVE sanitize(_)
sanitize(v) ==
    IF v.t = "obj"
    THEN JObj([k \in {k \in DOMAIN v.f : ~IsProhibitedKey(k)} |-> sanitize(v.f[k])])
    ELSE v

\* Whether a value has a prohibited key at some depth.
RECURSIVE HasProhibitedKey(_)
HasProhibitedKey(v) ==
    /\ v.t = "obj"
    /\ \E k \in DOMAIN v.f : IsProhibitedKey(k) \/ HasProhibitedKey(v.f[k])

\* Request bodies and query strings, as parsed.
B_plain == JObj(K_name :> JStr)
B_where == JObj(K_where :> JStr)
B_nested == JObj(K_name :> JObj(K_gt :> JStr))
B_dot == JObj(K_dot :> JStr)
B_mixed == JObj((K_name :> JStr) @@ (K_where :> JStr))

JsonBodies == {JEmpty, B_plain, B_where, B_nested, B_dot, B_mixed}
Queries == {JEmpty, B_plain, B_nested}

\* What the request carries as its body: nothing, JSON text that parses to a
\* value, JSON text that does not parse, or more than the 10mb limit.
WireBodies ==
    {[kind |-> k, value |-> JEmpty] : k \in {"none", "malformed", "toolarge"}}
    \cup {[kind |-> "json", value |-> b] : b \in JsonBodies}

\* The Content-Type header: absent, or a value made of these pieces of text.
NoHeader == [present |-> FALSE, value |-> <<>>]
Header(v) == [present |-> TRUE, value |-> v]

ContentTypes ==
    {NoHeader, Header(<<>>),
     Header(<<"application/json">>),
     Header(<<"application/json", "; charset=utf-8">>),
     Header(<<"multipart/form-data", "; boundary=x">>),
     Header(<<"text/plain">>),
     Header(<<"application/json", "-patch+json">>)}

Methods == {"GET", "POST", "PUT", "PATCH", "DELETE", "OPTIONS"}

Paths ==
    {"/api/auth/register", "/api/recipes/generate",
     "/api/recipes/search-by-ingredients", "/api/recipes/:id/save",
     "/health", "/nope"}

PipelineRequests ==
    {[method |-> m, path |-> p, contentType |-> ct, wire |-> w, query |-> q] :
        m \in Methods, p \in Paths, ct \in ContentTypes, w \in WireBodies,
        q \in Queries}

\* req.body before a body parser has set it.
BodyUndefined == [t |-> "undefined", f |-> <<>>]

NoRequest ==
    [method |-> "GET", path |-> "/nope", contentType |-> NoHeader,
     wire |-> [kind |-> "none", value |-> JEmpty], query |-> JEmpty]

\* An error object with the properties the translator reads.
MkError(name, message, code, status, type, body) ==
    [name |-> name, message |-> message, code |-> code, status |-> status,
     statusCode |-> status, type |-> type, body |-> body,
     keyValue |-> IF code = "11000"
                  THEN [field |-> "email", value |-> "a@b.co"] ELSE Undef,
     errors |-> IF name = "ValidationError"
                THEN <<<<"Name is required">>>> ELSE Undef,
     value |-> Undef]

NoError == MkError(Undef, <<>>, Undef, NoStatus, Undef, FALSE)

\* The req the error translator reads.
ReqOf(q) == [originalUrl |-> q.path, method |-> q.method, id |-> "id1"]

\* res.status(status).json(body), sent by the named stage.
Json(by, status, body) == [status |-> status, by |-> by, json |-> TRUE, body |-> body]

\* A stage has run.
Ran(stage) == pran' = pran \cup {stage}

\* A request arrives: express parses the query string; requestLogger, the
\* timeout guard and helmet call next().
PArrive ==
    /\ ppc = "idle"
    /\ \E q \in PipelineRequests :
          /\ preq' = q
          /\ pquery' = q.query
    /\ pbody' = BodyUndefined
    /\ ppc' = "sanitizeInputs"
    /\ Ran("requestLogger")
    /\ UNCHANGED <<pres, perr, penv>>
    /\ UNCHANGED exceptPipeline

\* sanitizeInputs: each of req.query, req.body, req.params is sanitized if it
\* is set. (req.params is the empty object here: a route's parameters are set
\* when the route matches, and their keys are the route's own names.)
sanitizeInputs ==
    /\ ppc = "sanitizeInputs"
    /\ pquery' = sanitize(pquery)
    /\ pbody' = IF pbody # BodyUndefined THEN sanitize(pbody) ELSE pbody
    /\ ppc' = "validateContentType"
    /\ Ran("sanitizeInputs")
    /\ UNCHANGED <<preq, pres, perr, penv>>
    /\ UNCHANGED exceptPipeline

\* !contentType: req.get returned undefined or the empty string.
IsFalsyHeader(h) == ~h.present \/ h.value = <<>>

\* contentType.includes("application/json") || includes("multipart/form-data")
IsSupportedMediaType(h) ==
    \/ Includes(h.value, <<"application/json">>)
    \/ Includes(h.value, <<"multipart/form-data">>)

ValidationErrorBody(message, type) ==
    [success |-> FALSE, message |-> message,
     error |-> [type |-> type, timestamp |-> "now"]]

\* validateContentType
validateContentType ==
    /\ ppc = "validateContentType"
    /\ Ran("validateContentType")
    /\ IF preq.method \in {"POST", "PUT", "PATCH"}
       THEN IF IsFalsyHeader(preq.contentType)
            THEN /\ pres' = Json("validateContentType", 400,
                       ValidationErrorBody(<<"Content-Type header is required">>,
                                           "ValidationError"))
                 /\ ppc' = "done"
            ELSE IF ~IsSupportedMediaType(preq.contentType)
            THEN /\ pres' = Json("validateContentType", 415,
                       ValidationErrorBody(
                           <<"Unsupported Media Type. Only application/json and multipart/form-data are supported.">>,
                           "UnsupportedMediaTypeError"))
                 /\ ppc' = "done"
            ELSE /\ ppc' = "cors"
                 /\ UNCHANGED pres
       ELSE /\ ppc' = "cors"
            /\ UNCHANGED pres
    /\ UNCHANGED <<preq, pbody, pquery, perr, penv>>
    /\ UNCHANGED exceptPipeline

\* cors({... preflightContinue: false, optionsSuccessStatus: 200}): an
\* OPTIONS request is answered here, with no body.
cors ==
    /\ ppc = "cors"
    /\ Ran("cors")
    /\ IF preq.method = "OPTIONS"
       THEN /\ pres' = [status |-> 200, by |-> "cors", json |-> FALSE,
                        body |-> [success |-> TRUE]]
            /\ ppc' = "done"
       ELSE /\ ppc' = "apiRateLimit"
            /\ UNCHANGED pres
    /\ UNCHANGED <<preq, pbody, pquery, perr, penv>>
    /\ UNCHANGED exceptPipeline

IsApiPath(path) ==
    path \in {"/api/auth/register", "/api/recipes/generate",
              "/api/recipes/search-by-ingredients", "/api/recipes/:id/save"}

\* The handler createRateLimit gives the limiter: what it sends over the limit.
RateLimitResponse(by, message) ==
    Json(by, 429,
         [success |-> FALSE, message |-> message,
          error |-> [type |-> "RateLimitError", timestamp |-> "now",
                     retryAfter |-> 900]])

\* app.use("/api/", apiRateLimit): the client is over the limit or not.
apiRateLimitStage(over) ==
    /\ ppc = "apiRateLimit"
    /\ IF IsApiPath(preq.path)
       THEN /\ Ran("apiRateLimit")
            /\ IF over
               THEN /\ pres' = RateLimitResponse("apiRateLimit",
                                  <<"Too many API requests. Please slow down.">>)
                    /\ ppc' = "done"
               ELSE /\ ppc' = "bodyParser"
                    /\ UNCHANGED pres
       ELSE /\ ~over
            /\ ppc' = "bodyParser"
            /\ UNCHANGED <<pres, pran>>
    /\ UNCHANGED <<preq, pbody, pquery, perr, penv>>
    /\ UNCHANGED exceptPipeline

\* The media type of a header value: the text before the first parameter.
IsParameter(piece) == piece \in {"; charset=utf-8", "; boundary=x"}
MediaType(value) ==
    LET ks == {k \in DOMAIN value : IsParameter(value[k])}
        first == IF ks = {} THEN Len(value) + 1
                 ELSE CHOOSE k \in ks : \A j \in ks : k <= j
    IN SubSeq(value, 1, first - 1)

\* type-is on the request's media type, for the parser's type application/json.
TypeIsJson(h) == h.present /\ MediaType(h.value) = <<"application/json">>

\* express.json({limit: "10mb"}), then express.urlencoded: req.body becomes
\* the parsed value, or {} when there is nothing to parse; a body that is too
\* large or does not parse is passed to next(err).
bodyParser ==
    /\ ppc = "bodyParser"
    /\ Ran("bodyParser")
    /\ LET parses == preq.wire.kind # "none" /\ TypeIsJson(preq.contentType)
       IN IF parses /\ preq.wire.kind = "toolarge"
          THEN /\ perr' = MkError("PayloadTooLargeError",
                                 <<"request entity too large">>, Undef, 413,
                                 "entity.too.large", FALSE)
               /\ ppc' = "errorHandler"
               /\ UNCHANGED pbody
          ELSE IF parses /\ preq.wire.kind = "malformed"
          THEN /\ perr' = MkError("SyntaxError",
                                 <<"Unexpected token } in JSON at position 5">>,
                                 Undef, 400, "entity.parse.failed", TRUE)
               /\ ppc' = "errorHandler"
               /\ UNCHANGED pbody
          ELSE /\ pbody' = IF parses THEN preq.wire.value ELSE JEmpty
               /\ ppc' = "route"
               /\ UNCHANGED perr
    /\ UNCHANGED <<preq, pquery, pres, penv>>
    /\ UNCHANGED exceptPipeline

\* app.use(errorHandler): answers the error passed to next(err).
errorHandlerStage ==
    /\ ppc = "errorHandler"
    /\ Ran("errorHandler")
    /\ LET r == errorHandler(perr, ReqOf(preq), penv)
       IN pres' = Json("errorHandler", r.status, r.body)
    /\ ppc' = "done"
    /\ UNCHANGED <<preq, pbody, pquery, perr, penv>>
    /\ UNCHANGED exceptPipeline

\* The routes of the requests modelled here.
Routes ==
    {<<"POST", "/api/auth/register">>, <<"POST", "/api/recipes/generate">>,
     <<"POST", "/api/recipes/search-by-ingredients">>,
     <<"POST", "/api/recipes/:id/save">>, <<"DELETE", "/api/recipes/:id/save">>,
     <<"GET", "/health">>}

AtRoute(method, path) ==
    ppc = "route" /\ preq.method = method /\ preq.path = path

Plain(success, message) == [success |-> success, message |-> message]

ValidationFailed ==
    [success |-> FALSE, message |-> <<"Validation failed">>,
     errors |-> <<"errors.array()">>]

\* A handler answers and the request is done.
Answer(handler, status, body) ==
    /\ pres' = Json(handler, status, body)
    /\ ppc' = "done"

\* What User.create throws when it fails.
StoreErrors ==
    {MkError("MongoError", M_pool, "11000", NoStatus, Undef, FALSE),
     MkError("ValidationError", M_empty, Undef, NoStatus, Undef, FALSE),
     MkError("MongooseError", M_pool, Undef, NoStatus, Undef, FALSE),
     MkError("Error", M_hash, Undef, NoStatus, Undef, FALSE)}

\* POST /api/auth/register: authRateLimit, registerValidation, then
\* register, wrapped in asyncHandler: what it throws goes to next(err).
register(outcome, err) ==
    /\ AtRoute("POST", "/api/auth/register")
    /\ IF outcome = "limited"
       THEN /\ Ran("authRateLimit")
            /\ pres' = RateLimitResponse("authRateLimit",
                  <<"Too many authentication attempts. Please try again later.">>)
            /\ ppc' = "done"
            /\ UNCHANGED perr
       ELSE /\ pran' = pran \cup {"authRateLimit", "register"}
            /\ CASE outcome = "invalid" ->
                      Answer("register", 400, ValidationFailed) /\ UNCHANGED perr
                 [] outcome = "exists" ->
                      /\ Answer("register", 400,
                             Plain(FALSE, <<"User already exists with this email">>))
                      /\ UNCHANGED perr
                 [] outcome = "throws" ->
                      /\ perr' = err
                      /\ ppc' = "errorHandler"
                      /\ UNCHANGED pres
                 [] OTHER ->
                      /\ Answer("register", 201,
                             Plain(TRUE, <<"User registered successfully">>))
                      /\ UNCHANGED perr
    /\ UNCHANGED <<preq, pbody, pquery, penv>>
    /\ UNCHANGED exceptPipeline

\* What azureOpenAIService.generateRecipe throws: every failure is wrapped
\* as "Failed to generate recipe: " + error.message.
AIFailure(cause) ==
    LET prefix == <<"Failed", "to", "generate", "recipe:">>
        message ==
            CASE cause = "notInitialized" ->
                    prefix \o <<"Azure", "OpenAI", "service", "not", "initialized">>
              [] cause = "noResponse" ->
                    prefix \o <<"No", "response", "received", "from", "Azure",
                                "OpenAI">>
              [] cause = "non2xx" ->
                    prefix \o <<"401", "Incorrect", "API", "key", "provided.",
                                "OpenAI">>
              [] OTHER -> prefix \o <<"Connection", "error.">>
    IN MkError("Error", message, Undef, NoStatus, Undef, FALSE)

AICauses == {"notInitialized", "noResponse", "non2xx", "unreachable"}

\* POST /api/recipes/generate, for a request auth has let through:
\* generateRecipeValidation, then generateRecipe, which answers what it
\* catches itself.
generateRecipe(outcome, cause) ==
    /\ AtRoute("POST", "/api/recipes/generate")
    /\ Ran("generateRecipe")
    /\ CASE outcome = "invalid" ->
              Answer("generateRecipe", 400, ValidationFailed) /\ UNCHANGED perr
         [] outcome = "throws" ->
              /\ perr' = AIFailure(cause)
              /\ Answer("generateRecipe", 500,
                     Plain(FALSE, OrMessage(AIFailure(cause).message,
                                            <<"Failed to generate recipe">>)))
         [] OTHER ->
              /\ Answer("generateRecipe", 201,
                     Plain(TRUE, <<"Recipe generated successfully">>))
              /\ UNCHANGED perr
    /\ UNCHANGED <<preq, pbody, pquery, penv>>
    /\ UNCHANGED exceptPipeline

\* POST /api/recipes/search-by-ingredients
searchByIngredients(outcome) ==
    /\ AtRoute("POST", "/api/recipes/search-by-ingredients")
    /\ Ran("getRecipesByIngredients")
    /\ CASE outcome = "invalid" ->
              Answer("getRecipesByIngredients", 400, ValidationFailed)
         [] outcome = "throws" ->
              Answer("getRecipesByIngredients", 500,
                     Plain(FALSE, <<"Failed to search recipes by ingredients">>))
         [] OTHER ->
              Answer("getRecipesByIngredients", 200, Plain(TRUE, <<>>))
    /\ UNCHANGED <<preq, pbody, pquery, perr, penv>>
    /\ UNCHANGED exceptPipeline

\* POST /api/recipes/:id/save, for a request auth has let through.
saveRecipe(outcome) ==
    /\ AtRoute("POST", "/api/recipes/:id/save")
    /\ Ran("saveRecipe")
    /\ CASE outcome = "notFound" ->
              Answer("saveRecipe", 404, Plain(FALSE, <<"Recipe not found">>))
         [] outcome = "exists" ->
              Answer("saveRecipe", 400, Plain(FALSE, <<"Recipe already saved">>))
         [] outcome = "throws" ->
              Answer("saveRecipe", 500, Plain(FALSE, <<"Failed to save recipe">>))
         [] OTHER ->
              Answer("saveRecipe", 200, Plain(TRUE, <<"Recipe saved successfully">>))
    /\ UNCHANGED <<preq, pbody, pquery, perr, penv>>
    /\ UNCHANGED exceptPipeline

\* DELETE /api/recipes/:id/save, for a request auth has let through.
unsaveRecipe(outcome) ==
    /\ AtRoute("DELETE", "/api/recipes/:id/save")
    /\ Ran("unsaveRecipe")
    /\ CASE outcome = "notFound" ->
              Answer("unsaveRecipe", 404, Plain(FALSE, <<"Recipe not found">>))
         [] outcome = "throws" ->
              Answer("unsaveRecipe", 500, Plain(FALSE, <<"Failed to remove recipe">>))
         [] OTHER ->
              Answer("unsaveRecipe", 200,
                     Plain(TRUE, <<"Recipe removed from saved recipes">>))
    /\ UNCHANGED <<preq, pbody, pquery, perr, penv>>
    /\ UNCHANGED exceptPipeline

\* GET /health
health(ok) ==
    /\ AtRoute("GET", "/health")
    /\ Ran("health")
    /\ Answer("health", IF ok THEN 200 ELSE 503,
              [status |-> IF ok THEN "OK" ELSE "DEGRADED", timestamp |-> "now"])
    /\ UNCHANGED <<preq, pbody, pquery, perr, penv>>
    /\ UNCHANGED exceptPipeline

\* app.use("*", ...): no route took the request.
notFound ==
    /\ ppc = "route"
    /\ <<preq.method, preq.path>> \notin Routes
    /\ Ran("notFound")
    /\ Answer("notFound", 404, Plain(FALSE, <<"API endpoint not found">>))
    /\ UNCHANGED <<preq, pbody, pquery, perr, penv>>
    /\ UNCHANGED exceptPipeline

PipelineIdle ==
    /\ preq = NoRequest
    /\ pbody = BodyUndefined
    /\ pquery = JEmpty
    /\ ppc = "idle"
    /\ pran = {}
    /\ pres = NoResponse
    /\ perr = NoError
    /\ penv = "production"

NextPipeline ==
    \/ PArrive
    \/ sanitizeInputs
    \/ validateContentType
    \/ cors
    \/ \E over \in BOOLEAN : apiRateLimitStage(over)
    \/ bodyParser
    \/ errorHandlerStage
    \/ \E o \in {"ok", "invalid", "exists", "throws", "limited"} :
          \E err \in StoreErrors : register(o, err)
    \/ \E o \in {"ok", "invalid", "throws"} :
          \E cause \in AICauses : generateRecipe(o, cause)
    \/ \E o \in {"ok", "invalid", "throws"} : searchByIngredients(o)
    \/ \E o \in {"ok", "notFound", "exists", "throws"} : saveRecipe(o)
    \/ \E o \in {"ok", "notFound", "throws"} : unsaveRecipe(o)
    \/ \E ok \in BOOLEAN : health(ok)
    \/ notFound

\* The stages after validateContentType, and the domain handlers.
Handlers ==
    {"register", "generateRecipe", "getRecipesByIngredients", "saveRecipe",
     "unsaveRecipe"}
LaterStages ==
    {"cors", "apiRateLimit", "authRateLimit", "bodyParser", "errorHandler",
     "health", "notFound"} \cup Handlers

(***************************************************************************)
(* RATE LIMITING  (createRateLimit, apiRateLimit, authRateLimit)           *)
(***************************************************************************)

\* Client addresses (req.ip, the limiter's key). The busy client goes over
\* the limits; the other sends a few requests.
Clients == {"a", "b"}
BusyClient == "a"
MaxOver == 2
MaxQuietHits == 1
MaxPending == 1

\* The limiters and the max each was created with.
Policies == {"api", "auth"}
ApiMax == 100
AuthMax == 5
Max(policy) == IF policy = "api" THEN ApiMax ELSE AuthMax

\* The requests: one under /api/ that is not an auth route, the two auth
\* routes that carry authRateLimit.
AuthKinds == {"register", "login"}
RequestKinds == {"api"} \cup AuthKinds

HitCap(policy, client) ==
    IF client = BusyClient THEN Max(policy) + MaxOver ELSE MaxQuietHits

\* The limiter's test on the count that includes the present request.
OverLimitOffByOne(totalHits, max) == totalHits > max + 1
OverLimit(totalHits, max) == totalHits > max

NoLast ==
    [client |-> "none", policy |-> "none", totalHits |-> 0, status |-> 0,
     handler |-> FALSE]

\* What the request met at a limiter: the limiter's 429, or the handler when
\* no limiter is left on its way.
Met(client, policy, totalHits, handler) ==
    [client |-> client, policy |-> policy, totalHits |-> totalHits,
     status |-> IF OverLimit(totalHits, Max(policy)) THEN 429 ELSE 200,
     handler |-> handler /\ ~OverLimit(totalHits, Max(policy))]

\* One limiter on one request: the store increments the key's count, and the
\* request goes on only if the count is not over max.
Limit(policy, client) ==
    LET totalHits == rhits[policy][client] + 1
    IN /\ rhits[policy][client] < HitCap(policy, client)
       /\ rhits' = [rhits EXCEPT ![policy][client] = totalHits]
       /\ rpassed' = IF OverLimit(totalHits, Max(policy)) THEN rpassed
                     ELSE [rpassed EXCEPT ![policy][client] = @ + 1]

\* app.use("/api/", apiRateLimit), on a request of the client to a path
\* under /api/. An auth route's request goes on to authRateLimit.
apiRateLimit(client, kind) ==
    LET totalHits == rhits["api"][client] + 1
        on == kind \in AuthKinds /\ ~OverLimit(totalHits, Max("api"))
    IN /\ Limit("api", client)
       /\ on => Len(rpending) < MaxPending
       /\ rpending' = IF on THEN Append(rpending, [client |-> client, kind |-> kind])
                      ELSE rpending
       /\ rlast' = Met(client, "api", totalHits, kind = "api")
       /\ UNCHANGED exceptRate

\* router.post("/register" | "/login", authRateLimit, ...): the limiter the
\* two routes share, on a request the general limiter let through.
authRateLimit(i) ==
    /\ i \in DOMAIN rpending
    /\ LET client == rpending[i].client
       IN /\ Limit("auth", client)
          /\ rlast' = Met(client, "auth", rhits["auth"][client] + 1, TRUE)
    /\ rpending' = SubSeq(rpending, 1, i - 1) \o SubSeq(rpending, i + 1, Len(rpending))
    /\ UNCHANGED exceptRate

\* A request to a path outside /api/ meets no limiter.
outsideApi(client) ==
    /\ rlast' = [client |-> client, policy |-> "none", totalHits |-> 0,
                 status |-> 200, handler |-> TRUE]
    /\ UNCHANGED <<rhits, rpassed, rpending>>
    /\ UNCHANGED exceptRate

\* windowMs has passed for a key of a limiter: its count starts again.
windowReset(policy, client) ==
    /\ rhits[policy][client] > 0
    /\ rhits' = [rhits EXCEPT ![policy][client] = 0]
    /\ rpassed' = [rpassed EXCEPT ![policy][client] = 0]
    /\ UNCHANGED <<rpending, rlast>>
    /\ UNCHANGED exceptRate

RateIdle ==
    /\ rhits = [p \in Policies |-> [c \in Clients |-> 0]]
    /\ rpassed = [p \in Policies |-> [c \in Clients |-> 0]]
    /\ rpending = <<>>
    /\ rlast = NoLast

NextRate ==
    \/ \E c \in Clients : \E kind \in RequestKinds : apiRateLimit(c, kind)
    \/ \E i \in 1..MaxPending : authRateLimit(i)
    \/ \E c \in Clients : outsideApi(c)
    \/ \E p \in Policies : \E c \in Clients : windowReset(p, c)

(***************************************************************************)
(* AI GENERATION ROUTE AND ITS LIMITER  (aiRateLimit, recipe routes)       *)
(***************************************************************************)

\* aiRateLimit = createRateLimit(60 * 1000, 10, ...)
AiMax == 10

\* The middleware of router.post("/generate", ...), in order, after the
\* middleware mounted on the app.
GenerateRouteChain == <<"auth", "generateRecipeValidation", "generateRecipe">>

\* Whether aiRateLimit is on the route: it is exported, and no route uses it.
AiLimiterMounted == "aiRateLimit" \in Range(GenerateRouteChain)

\* POST /api/recipes/generate by an authenticated client: the general limiter,
\* then the route's chain, which ends in the handler.
generateRequest(client) ==
    LET totalHits == rhits["api"][client] + 1
        limited == AiLimiterMounted /\ OverLimit(rgen[client] + 1, AiMax)
        reaches == ~OverLimit(totalHits, Max("api")) /\ ~limited
    IN /\ Limit("api", client)
       /\ rgen[client] < (IF client = BusyClient THEN AiMax + MaxOver
                          ELSE MaxQuietHits)
       /\ rgen' = IF reaches THEN [rgen EXCEPT ![client] = @ + 1] ELSE rgen
       /\ rlast' = [client |-> client,
                    policy |-> IF limited THEN "ai" ELSE "api",
                    totalHits |-> IF limited THEN rgen[client] + 1 ELSE totalHits,
                    status |-> IF reaches THEN 201 ELSE 429,
                    handler |-> reaches]
       /\ UNCHANGED rpending
       /\ UNCHANGED exceptRateAi

\* One minute (the AI policy's windowMs) has passed for the client.
minuteElapsed(client) ==
    /\ rgen[client] > 0
    /\ rgen' = [rgen EXCEPT ![client] = 0]
    /\ UNCHANGED exceptAi

AiIdle == rgen = [c \in Clients |-> 0]

NextAiRate ==
    \/ \E c \in Clients : generateRequest(c)
    \/ \E c \in Clients : minuteElapsed(c)
    \/ \E c \in Clients : windowReset("api", c)

(***************************************************************************)
(* RETRY-AFTER  (createRateLimit: the 429 body)                            *)
(***************************************************************************)

\* Steps of the clock in one window.
TicksPerWindow == 3

\* windowMs of the limiters: 15 * 60 * 1000.
WindowMs == 900000
TickOf(windowMs) == windowMs \div TicksPerWindow

\* Math.ceil(ms / 1000)
CeilSeconds(ms) == (ms + 999) \div 1000

\* retryAfter: Math.ceil(windowMs / 1000), in the 429 body.
RetryAfter(windowMs, age) == CeilSeconds(windowMs)

NoRetry == [status |-> 0, retryAfter |-> 0, remaining |-> 0]

\* A limiter on a request of the client: over the limit, it sends the
\* 429 body; the window then has windowMs - age left.
limiterResponds(policy, client) ==
    LET totalHits == rhits[policy][client] + 1
    IN /\ Limit(policy, client)
       /\ rretry' = IF OverLimit(totalHits, Max(policy))
                    THEN [status |-> 429,
                          retryAfter |-> RetryAfter(WindowMs, rage[policy][client]),
                          remaining |-> CeilSeconds(WindowMs - rage[policy][client])]
                    ELSE NoRetry
       /\ UNCHANGED <<rpending, rlast, rage>>
       /\ UNCHANGED exceptRateClock

\* Time passes in a window that is open: it ages, and after windowMs the
\* key's count starts again.
clockTick(policy, client) ==
    /\ rhits[policy][client] > 0
    /\ IF rage[policy][client] + TickOf(WindowMs) < WindowMs
       THEN /\ rage' = [rage EXCEPT ![policy][client] = @ + TickOf(WindowMs)]
            /\ UNCHANGED <<rhits, rpassed>>
       ELSE /\ rage' = [rage EXCEPT ![policy][client] = 0]
            /\ rhits' = [rhits EXCEPT ![policy][client] = 0]
            /\ rpassed' = [rpassed EXCEPT ![policy][client] = 0]
    /\ UNCHANGED <<rpending, rlast, rretry>>
    /\ UNCHANGED exceptRateClock

ClockIdle ==
    /\ rage = [p \in Policies |-> [c \in Clients |-> 0]]
    /\ rretry = NoRetry

NextRetryAfter ==
    \/ \E c \in Clients : limiterResponds("auth", c)
    \/ \E c \in Clients : clockTick("auth", c)

(***************************************************************************)
(* AUTH GATE  (routes, auth / optionalAuth)                                *)
(***************************************************************************)

Route(method, path, chain, writes) ==
    [method |-> method, path |-> path, chain |-> chain, writes |-> writes]

\* The routes as the routers declare them, each with its middleware in order
\* (the last is the handler) and the collections its handler writes.
RouteTable ==
    {Route("POST", "/api/auth/register",
           <<"authRateLimit", "validation", "register">>, {"User"}),
     Route("POST", "/api/auth/login",
           <<"authRateLimit", "validation", "login">>, {"User"}),
     Route("GET", "/api/auth/me", <<"auth", "getMe">>, {}),
     Route("PUT", "/api/auth/profile",
           <<"auth", "validation", "updateProfile">>, {"User"}),
     Route("PUT", "/api/auth/change-password",
           <<"auth", "validation", "changePassword">>, {"User"}),
     Route("POST", "/api/recipes/generate",
           <<"auth", "validation", "generateRecipe">>, {"Recipe"}),
     Route("POST", "/api/recipes/search-by-ingredients",
           <<"validation", "getRecipesByIngredients">>, {}),
     Route("GET", "/api/recipes/saved", <<"auth", "getSavedRecipes">>, {}),
     Route("GET", "/api/recipes", <<"getRecipes">>, {}),
     Route("GET", "/api/recipes/:id", <<"optionalAuth", "getRecipe">>, {"Recipe"}),
     Route("POST", "/api/recipes/:id/save", <<"auth", "saveRecipe">>,
           {"User", "Recipe"}),
     Route("DELETE", "/api/recipes/:id/save", <<"auth", "unsaveRecipe">>,
           {"User", "Recipe"}),
     Route("POST", "/api/recipes/:id/rate",
           <<"auth", "validation", "rateRecipe">>, {"Recipe"}),
     Route("GET", "/api/users/:id", <<"optionalAuth", "getUserProfile">>, {})}

\* The middleware chain the routers give a request.
ChainOfWithoutGate(method, path) ==
    LET r == CHOOSE r \in RouteTable : r.method = method /\ r.path = path
    IN SelectSeq(r.chain, LAMBDA mw : mw # "auth")
ChainOf(method, path) ==
    (CHOOSE r \in RouteTable : r.method = method /\ r.path = path).chain

\* The Authorization header: absent, or a bearer token that is valid, does
\* not verify, or has expired.
Authorizations == {"none", "valid", "invalid", "expired"}

GateContentTypes ==
    {NoHeader, Header(<<"application/json">>), Header(<<"text/plain">>)}

GateRequests ==
    {[method |-> r.method, path |-> r.path, writes |-> r.writes,
      authorization |-> a, contentType |-> ct, wire |-> w] :
        r \in RouteTable, a \in Authorizations, ct \in GateContentTypes,
        w \in {"none", "json", "malformed"}}

NoGateRequest ==
    [method |-> "GET", path |-> "/api/recipes", writes |-> {},
     authorization |-> "none", contentType |-> NoHeader, wire |-> "none"]

GateResponse(by, status) == [status |-> status, by |-> by]

gateFrame == UNCHANGED exceptGate

\* The request arrives; the stages mounted before the limiter that answer
\* nothing here (logger, timeout, helmet, sanitizeInputs, cors) call next().
gateArrive ==
    /\ gpc = "idle"
    /\ \E q \in GateRequests : greq' = q
    /\ gpc' = "validateContentType"
    /\ UNCHANGED <<gchain, gres, guser, ginvoked, gwrites>>
    /\ gateFrame

\* validateContentType on the request.
gateValidateContentType ==
    /\ gpc = "validateContentType"
    /\ IF greq.method \in {"POST", "PUT", "PATCH"} /\ IsFalsyHeader(greq.contentType)
       THEN gres' = GateResponse("validateContentType", 400) /\ gpc' = "done"
       ELSE IF /\ greq.method \in {"POST", "PUT", "PATCH"}
               /\ ~IsSupportedMediaType(greq.contentType)
       THEN gres' = GateResponse("validateContentType", 415) /\ gpc' = "done"
       ELSE gpc' = "apiRateLimit" /\ UNCHANGED gres
    /\ UNCHANGED <<greq, gchain, guser, ginvoked, gwrites>>
    /\ gateFrame

\* app.use("/api/", apiRateLimit): the client is over the limit or not.
gateApiRateLimit(over) ==
    /\ gpc = "apiRateLimit"
    /\ IF over
       THEN gres' = GateResponse("apiRateLimit", 429) /\ gpc' = "done"
       ELSE gpc' = "bodyParser" /\ UNCHANGED gres
    /\ UNCHANGED <<greq, gchain, guser, ginvoked, gwrites>>
    /\ gateFrame

\* express.json: a body that does not parse goes to errorHandler, which
\* answers 400; then the router matches the route.
gateBodyParser ==
    /\ gpc = "bodyParser"
    /\ IF greq.wire = "malformed" /\ TypeIsJson(greq.contentType)
       THEN /\ gres' = GateResponse("errorHandler", 400)
            /\ gpc' = "done"
            /\ UNCHANGED gchain
       ELSE /\ gchain' = ChainOf(greq.method, greq.path)
            /\ gpc' = "route"
            /\ UNCHANGED gres
    /\ UNCHANGED <<greq, guser, ginvoked, gwrites>>
    /\ gateFrame

AtChain(mw) == gpc = "route" /\ gchain # <<>> /\ Head(gchain) = mw

\* authRateLimit on register and login.
gateAuthRateLimit(over) ==
    /\ AtChain("authRateLimit")
    /\ IF over
       THEN gres' = GateResponse("authRateLimit", 429) /\ gpc' = "done"
            /\ UNCHANGED gchain
       ELSE gchain' = Tail(gchain) /\ UNCHANGED <<gres, gpc>>
    /\ UNCHANGED <<greq, guser, ginvoked, gwrites>>
    /\ gateFrame

\* The required gate: a missing, invalid or expired token gets 401 and the
\* chain stops; a valid one attaches the user's id.
auth ==
    /\ AtChain("auth")
    /\ IF greq.authorization = "valid"
       THEN /\ guser' = "u1"
            /\ gchain' = Tail(gchain)
            /\ UNCHANGED <<gres, gpc>>
       ELSE /\ gres' = GateResponse("auth", 401)
            /\ gpc' = "done"
            /\ UNCHANGED <<guser, gchain>>
    /\ UNCHANGED <<greq, ginvoked, gwrites>>
    /\ gateFrame

\* The optional gate: without a valid token the request goes on with no
\* identity.
optionalAuth ==
    /\ AtChain("optionalAuth")
    /\ guser' = IF greq.authorization = "valid" THEN "u1" ELSE guser
    /\ gchain' = Tail(gchain)
    /\ UNCHANGED <<greq, gpc, gres, ginvoked, gwrites>>
    /\ gateFrame

\* The express-validator chains record their findings and call next().
gateValidation ==
    /\ AtChain("validation")
    /\ gchain' = Tail(gchain)
    /\ UNCHANGED <<greq, gpc, gres, guser, ginvoked, gwrites>>
    /\ gateFrame

\* The route's handler: it answers, having written some of what it writes.
gateHandler(status, written) ==
    /\ gpc = "route"
    /\ Len(gchain) = 1
    /\ Head(gchain) \notin {"authRateLimit", "auth", "optionalAuth", "validation"}
    /\ written \subseteq greq.writes
    /\ status \in 200..299 => written = greq.writes
    /\ ginvoked' = Head(gchain)
    /\ gwrites' = written
    /\ gres' = GateResponse(Head(gchain), status)
    /\ gchain' = <<>>
    /\ gpc' = "done"
    /\ UNCHANGED <<greq, guser>>
    /\ gateFrame

GateIdle ==
    /\ greq = NoGateRequest
    /\ gpc = "idle"
    /\ gchain = <<>>
    /\ gres = NoResponse
    /\ guser = "none"
    /\ ginvoked = "none"
    /\ gwrites = {}

NextGate ==
    \/ gateArrive
    \/ gateValidateContentType
    \/ \E over \in BOOLEAN : gateApiRateLimit(over)
    \/ gateBodyParser
    \/ \E over \in BOOLEAN : gateAuthRateLimit(over)
    \/ auth
    \/ optionalAuth
    \/ gateValidation
    \/ \E status \in {200, 400, 404, 500} :
          \E written \in SUBSET {"User", "Recipe"} : gateHandler(status, written)

(***************************************************************************)
(* RATINGS  (rateRecipe, updateAverageRating)                              *)
(***************************************************************************)

Users == {"u1", "u2"}

\* rateRecipe requests that can be in flight together, and how many start.
RateSlots == {"q1", "q2"}
MaxRateOps == 3

\* req.body of a valid request: rating (1..5) and comment.
RatingInputs ==
    {[rating |-> 1, comment |-> "bad"], [rating |-> 5, comment |-> "good"],
     [rating |-> 4, comment |-> "fine"]}

RECURSIVE SumRatings(_)
SumRatings(ratings) ==
    IF ratings = <<>> THEN 0
    ELSE Head(ratings).rating + SumRatings(Tail(ratings))

\* updateAverageRating: averageRating is sum / length, kept here as the
\* pair <<sum, length>>; 0 is <<0, 1>>.
SameNumber(a, b) == a[1] * b[2] = b[1] * a[2]
updateAverageRating(doc) ==
    IF Len(doc.ratings) = 0
    THEN [doc EXCEPT !.averageRating = <<0, 1>>, !.totalRatings = 0]
    ELSE [doc EXCEPT !.averageRating = <<SumRatings(doc.ratings), Len(doc.ratings)>>,
                     !.totalRatings = Len(doc.ratings)]

\* recipe.ratings.findIndex((r) => r.user.toString() === req.user._id.toString())
\* with 0 for -1.
FindRatingIndex(ratings, user) ==
    IF \E i \in DOMAIN ratings : ratings[i].user = user
    THEN CHOOSE i \in DOMAIN ratings :
            /\ ratings[i].user = user
            /\ \A j \in DOMAIN ratings : ratings[j].user = user => i <= j
    ELSE 0

NewDoc ==
    [ratings |-> <<>>, averageRating |-> <<0, 1>>, totalRatings |-> 0, v |-> 0]

NoRate ==
    [phase |-> "idle", user |-> "u1", input |-> [rating |-> 1, comment |-> "bad"],
     copy |-> NewDoc, status |-> 0]

\* rateRecipe up to its first await: the request is valid, and
\* Recipe.findById gives the handler its own copy of the document.
rateLoad(q, user, input) ==
    /\ kreq[q].phase = "idle"
    /\ kops < MaxRateOps
    /\ kops' = kops + 1
    /\ kreq' = [kreq EXCEPT ![q] =
                  [phase |-> "loaded", user |-> user, input |-> input,
                   copy |-> kdoc, status |-> 0]]
    /\ UNCHANGED kdoc
    /\ UNCHANGED exceptRating

\* rateRecipe from findIndex to the response: the copy is changed,
\* updateAverageRating runs on the copy, and recipe.save() sends what
\* changed. A changed element goes as $set on its index, guarded by the
\* version the copy was loaded with (a mismatch is a VersionError, answered
\* 500); a pushed element goes as $push, which raises the version; the
\* changed averageRating and totalRatings go as $set.
rateSave(q) ==
    /\ kreq[q].phase = "loaded"
    /\ LET r == kreq[q]
           i == FindRatingIndex(r.copy.ratings, r.user)
           entry == [user |-> r.user, rating |-> r.input.rating,
                     comment |-> r.input.comment]
           changed == IF i # 0
                      THEN [r.copy EXCEPT !.ratings[i] = entry]
                      ELSE [r.copy EXCEPT !.ratings = Append(@, entry)]
           mine == updateAverageRating(changed)
           conflict == i # 0 /\ kdoc.v # r.copy.v
           stored ==
               [ratings |-> IF i # 0 THEN [kdoc.ratings EXCEPT ![i] = entry]
                            ELSE Append(kdoc.ratings, entry),
                averageRating |-> IF ~SameNumber(mine.averageRating,
                                                 r.copy.averageRating)
                                  THEN mine.averageRating ELSE kdoc.averageRating,
                totalRatings |-> IF mine.totalRatings # r.copy.totalRatings
                                 THEN mine.totalRatings ELSE kdoc.totalRatings,
                v |-> IF i # 0 THEN kdoc.v ELSE kdoc.v + 1]
       IN /\ kdoc' = IF conflict THEN kdoc ELSE stored
          /\ kreq' = [kreq EXCEPT ![q] =
                        [r EXCEPT !.phase = "idle",
                                  !.status = IF conflict THEN 500 ELSE 200]]
    /\ UNCHANGED kops
    /\ UNCHANGED exceptRating

RatingIdle ==
    /\ kdoc = NewDoc
    /\ kreq = [q \in RateSlots |-> NoRate]
    /\ kops = 0

NextRating ==
    \/ \E q \in RateSlots : \E u \in Users : \E input \in RatingInputs :
          rateLoad(q, u, input)
    \/ \E q \in RateSlots : rateSave(q)

(***************************************************************************)
(* COOKING TIME  (recipeSchema.pre("save"), the persisting operations)     *)
(***************************************************************************)

RecipeIds == {"r1", "r2"}

\* How often one recipe is viewed.
MaxViews == 2

\* The minutes a reply may give for a field of cookingTime.
Minutes == {15, 99}
CookingFields == {"prep", "cook", "total"}

\* A cookingTime object with some of its fields given.
GivenCookingTimes ==
    UNION {[S -> Minutes] : S \in SUBSET CookingFields}

\* The model's reply: text that does not parse, or a recipe object with or
\* without a cookingTime.
AiReplies ==
    {[kind |-> "unparseable", cookingTime |-> <<>>],
     [kind |-> "noCookingTime", cookingTime |-> <<>>]}
    \cup {[kind |-> "recipe", cookingTime |-> ct] : ct \in GivenCookingTimes}

\* parseRecipeResponse / getFallbackRecipe: the cookingTime of the recipe
\* handed to Recipe.create.
ParsedCookingTime(reply) ==
    CASE reply.kind = "unparseable" ->
            [f \in CookingFields |->
                CASE f = "prep" -> 15 [] f = "cook" -> 30 [] OTHER -> 45]
      [] reply.kind = "noCookingTime" -> [f \in CookingFields |-> 0]
      [] OTHER -> reply.cookingTime

\* The schema's defaults (0) for the fields not given.
WithDefaults(ct) ==
    [f \in CookingFields |-> IF f \in DOMAIN ct THEN ct[f] ELSE 0]

\* recipeSchema.pre("save"): prep and cook are defined once the defaults
\* have been applied, so total is set to their sum.
PreSaveKeepsTotal(doc) == doc
PreSave(doc) ==
    [doc EXCEPT !.cookingTime =
        [@ EXCEPT !["total"] = doc.cookingTime["prep"] + doc.cookingTime["cook"]]]

NoRecipe ==
    [exists |-> FALSE, cookingTime |-> [f \in CookingFields |-> 0],
     given |-> 0, views |-> 0, saved |-> FALSE, rated |-> FALSE]

\* generateRecipe's Recipe.create({...generatedRecipe, ...}): the document is
\* built with the defaults, the pre-save hook runs, and it is inserted.
createByGeneration(id, reply) ==
    /\ ~cdocs[id].exists
    /\ LET ct == WithDefaults(ParsedCookingTime(reply))
       IN cdocs' = [cdocs EXCEPT ![id] =
                      PreSave([NoRecipe EXCEPT !.exists = TRUE,
                                               !.cookingTime = ct,
                                               !.given = ct["total"]])]
    /\ UNCHANGED exceptCooking

\* The operations that load a stored recipe, change it and call save():
\* incrementViews (getRecipe), saveRecipe, unsaveRecipe, rateRecipe. The hook
\* runs in each save.
persist(id, op) ==
    /\ cdocs[id].exists
    /\ LET doc == cdocs[id]
           changed ==
               CASE op = "view" -> [doc EXCEPT !.views = @ + 1]
                 [] op = "save" -> [doc EXCEPT !.saved = TRUE]
                 [] op = "unsave" -> [doc EXCEPT !.saved = FALSE]
                 [] OTHER -> [doc EXCEPT !.rated = TRUE]
       IN /\ op = "view" => doc.views < MaxViews
          /\ cdocs' = [cdocs EXCEPT ![id] = PreSave(changed)]
    /\ UNCHANGED exceptCooking

CookingIdle == cdocs = [id \in RecipeIds |-> NoRecipe]

NextCooking ==
    \/ \E id \in RecipeIds : \E reply \in AiReplies : createByGeneration(id, reply)
    \/ \E id \in RecipeIds : \E op \in {"view", "save", "unsave", "rate"} :
          persist(id, op)

(***************************************************************************)
(* SAVE RELATION  (saveRecipe, unsaveRecipe)                               *)
(***************************************************************************)

\* Requests that can be in flight together, and how many start.
SaveSlots == {"s1", "s2"}
MaxSaveOps == 3

\* An id no stored recipe has.
MissingRecipe == "rX"

Has(array, id) == id \in Range(array)
AlreadySavedNever(copy, id) == FALSE
AlreadySaved(copy, id) == Has(copy.saved, id)
WithoutNothing(array, id) == array
Without(array, id) == SelectSeq(array, LAMBDA e : e # id)

NoSave ==
    [phase |-> "idle", op |-> "save", user |-> "u1", recipe |-> "r1",
     ucopy |-> [saved |-> <<>>, v |-> 0], rcopy |-> [savedBy |-> <<>>, v |-> 0],
     status |-> 0,
     before |-> [saved |-> <<>>, savedBy |-> <<>>]]

\* document.save() of a changed array. A push is sent as $push: it is
\* appended to the stored array whatever its version, and raises the version.
Pushed(stored, field, id) ==
    [stored EXCEPT ![field] = Append(@, id), !.v = @ + 1]

\* An assigned array is sent whole as $set, guarded by the version the copy
\* was loaded with: a stored version that differs is a VersionError.
VersionConflict(stored, copy) == stored.v # copy.v
Assigned(stored, field, array) ==
    [stored EXCEPT ![field] = array, !.v = @ + 1]

\* The handler up to Recipe.findById: an unknown id is answered 404.
findRecipe(q, op, u, r) ==
    /\ sreq[q].phase \in {"idle", "done"}
    /\ sops < MaxSaveOps
    /\ sops' = sops + 1
    /\ sreq' = [sreq EXCEPT ![q] =
          IF r = MissingRecipe
          THEN [NoSave EXCEPT !.phase = "done", !.op = op, !.user = u,
                              !.recipe = r, !.status = 404]
          ELSE [NoSave EXCEPT !.phase = "findUser", !.op = op, !.user = u,
                              !.recipe = r, !.rcopy = srecs[r],
                              !.before = [saved |-> susers[u].saved,
                                          savedBy |-> srecs[r].savedBy]]]
    /\ UNCHANGED <<susers, srecs, sfailed>>
    /\ UNCHANGED exceptSave

\* User.findById, then the handler's change to its copy of the user:
\* saveRecipe answers 400 if the copy has the recipe, else pushes it;
\* unsaveRecipe assigns the filtered array.
findUser(q) ==
    /\ sreq[q].phase = "findUser"
    /\ LET x == sreq[q]
           copy == susers[x.user]
       IN sreq' = [sreq EXCEPT ![q] =
             IF x.op = "save" /\ AlreadySaved(copy, x.recipe)
             THEN [x EXCEPT !.phase = "done", !.status = 400, !.ucopy = copy]
             ELSE [x EXCEPT !.phase = "saveUser", !.ucopy = copy]]
    /\ UNCHANGED <<susers, srecs, sops, sfailed>>
    /\ UNCHANGED exceptSave

\* await user.save(): the write reaches the store or fails; a failure is
\* caught and answered 500.
saveUser(q, ok) ==
    /\ sreq[q].phase = "saveUser"
    /\ LET x == sreq[q]
           stored == susers[x.user]
           filtered == Without(x.ucopy.saved, x.recipe)
           writes == x.op = "save" \/ filtered # x.ucopy.saved
           fails == writes /\ (~ok \/ (x.op = "unsave" /\ VersionConflict(stored, x.ucopy)))
       IN /\ ~writes => ok
          /\ susers' = IF ~writes \/ fails THEN susers
                       ELSE [susers EXCEPT ![x.user] =
                               IF x.op = "save"
                               THEN Pushed(stored, "saved", x.recipe)
                               ELSE Assigned(stored, "saved", filtered)]
          /\ sreq' = [sreq EXCEPT ![q] =
                        IF fails THEN [x EXCEPT !.phase = "done", !.status = 500]
                        ELSE [x EXCEPT !.phase = "saveRecipe"]]
          /\ sfailed' = (sfailed \/ fails)
    /\ UNCHANGED <<srecs, sops>>
    /\ UNCHANGED exceptSave

\* The handler's change to its copy of the recipe and await recipe.save():
\* saveRecipe pushes the user unless the copy has it; unsaveRecipe assigns
\* the filtered array. Then the handler answers.
saveRecipeDoc(q, ok) ==
    /\ sreq[q].phase = "saveRecipe"
    /\ LET x == sreq[q]
           stored == srecs[x.recipe]
           filtered == Without(x.rcopy.savedBy, x.user)
           writes == IF x.op = "save" THEN ~Has(x.rcopy.savedBy, x.user)
                     ELSE filtered # x.rcopy.savedBy
           fails == writes /\ (~ok \/ (x.op = "unsave" /\ VersionConflict(stored, x.rcopy)))
       IN /\ ~writes => ok
          /\ srecs' = IF ~writes \/ fails THEN srecs
                      ELSE [srecs EXCEPT ![x.recipe] =
                              IF x.op = "save"
                              THEN Pushed(stored, "savedBy", x.user)
                              ELSE Assigned(stored, "savedBy", filtered)]
          /\ sreq' = [sreq EXCEPT ![q] =
                        [x EXCEPT !.phase = "done",
                                  !.status = IF fails THEN 500 ELSE 200]]
          /\ sfailed' = (sfailed \/ fails)
    /\ UNCHANGED <<susers, sops>>
    /\ UNCHANGED exceptSave

SaveIdle ==
    /\ susers = [u \in Users |-> [saved |-> <<>>, v |-> 0]]
    /\ srecs = [r \in RecipeIds |-> [savedBy |-> <<>>, v |-> 0]]
    /\ sreq = [q \in SaveSlots |-> NoSave]
    /\ sops = 0
    /\ sfailed = FALSE

\* Requests that overlap.
NextSave ==
    \/ \E q \in SaveSlots : \E op \in {"save", "unsave"} : \E u \in Users :
          \E r \in RecipeIds \cup {MissingRecipe} : findRecipe(q, op, u, r)
    \/ \E q \in SaveSlots : findUser(q)
    \/ \E q \in SaveSlots : \E ok \in BOOLEAN : saveUser(q, ok)
    \/ \E q \in SaveSlots : \E ok \in BOOLEAN : saveRecipeDoc(q, ok)

\* Requests one after another.
NextSaveSequential ==
    \/ \E op \in {"save", "unsave"} : \E u \in Users :
          \E r \in RecipeIds \cup {MissingRecipe} : findRecipe("s1", op, u, r)
    \/ findUser("s1")
    \/ \E ok \in BOOLEAN : saveUser("s1", ok)
    \/ \E ok \in BOOLEAN : saveRecipeDoc("s1", ok)

(***************************************************************************)
(* AI REPLY PARSING  (parseRecipeResponse, getFallbackRecipe)              *)
(***************************************************************************)

\* The remote text as a sequence of pieces: a fence (three backticks) with
\* the json tag, a bare fence, whitespace, text that is not JSON, and the
\* text of one JSON value.
T_fenceJson == "fence+json"
T_fence == "fence"
T_space == " "
T_prose == "prose"
T_json == "json"
TextPieces == {T_fenceJson, T_fence, T_space, T_prose, T_json}
MaxPieces == 3

RECURSIVE SeqsUpTo(_, _)
SeqsUpTo(S, n) ==
    IF n = 0 THEN {<<>>}
    ELSE LET shorter == SeqsUpTo(S, n - 1)
         IN shorter \cup {Append(s, x) : s \in {t \in shorter : Len(t) = n - 1}, x \in S}

RemoteTexts == SeqsUpTo(TextPieces, MaxPieces)

\* JSON values of the reply: n is 0 for the empty string and the empty array.
V(t, n) == [t |-> t, n |-> n]
V_null == V("null", 0)
V_number == V("num", 5)
V_empty == V("str", 0)
V_string == V("str", 1)
V_array == V("arr", 1)
V_object == V("obj", 1)
Truthy(v) ==
    ~(v.t \in {"null", "undefined"} \/ (v.t \in {"num", "str", "bool"} /\ v.n = 0))
IsArray(v) == v.t = "arr"

RequiredFields == {"title", "ingredients", "instructions"}
OptionalFields == {"difficulty", "mealType"}
RecipeFields == RequiredFields \cup OptionalFields

\* What a field of the reply's object may hold.
FieldValues(f) ==
    CASE f \in RequiredFields -> {V_empty, V_string, V_array}
      [] f = "difficulty" -> {V_empty, V_string}
      [] OTHER -> {V_string, V_array}

ReplyObjects ==
    UNION {{o \in [S -> {V_empty, V_string, V_array}] :
               \A f \in S : o[f] \in FieldValues(f)} : S \in SUBSET RecipeFields}

\* The value JSON.parse gives for the json piece: not an object, or an object.
NotAnObject == [obj |-> FALSE, value |-> V_null, fields |-> <<>>]
Payloads ==
    {[obj |-> FALSE, value |-> v, fields |-> <<>>] :
        v \in {V_null, V_number, V_string, V_array}}
    \cup {[obj |-> TRUE, value |-> V_object, fields |-> o] : o \in ReplyObjects}

\* responseText.trim()
RECURSIVE TrimStart(_)
TrimStart(text) ==
    IF text # <<>> /\ Head(text) = T_space THEN TrimStart(Tail(text)) ELSE text
RECURSIVE TrimEnd(_)
TrimEnd(text) ==
    IF text # <<>> /\ text[Len(text)] = T_space
    THEN TrimEnd(SubSeq(text, 1, Len(text) - 1)) ELSE text
Trim(text) == TrimEnd(TrimStart(text))

\* cleanedResponse.replace(/<fence>\s*/g, ""): every such fence goes, with
\* the whitespace that follows it.
RECURSIVE ReplaceFence(_, _)
ReplaceFence(text, fence) ==
    IF text = <<>> THEN <<>>
    ELSE IF Head(text) = fence THEN ReplaceFence(TrimStart(Tail(text)), fence)
    ELSE <<Head(text)>> \o ReplaceFence(Tail(text), fence)

CleanedResponse(text) ==
    ReplaceFence(ReplaceFence(Trim(text), T_fenceJson), T_fence)

\* JSON.parse accepts one JSON value with whitespace around it.
JSONParses(text) == Trim(text) = <<T_json>>

\* The required-field test and the two Array.isArray tests.
Field(o, f) == IF f \in DOMAIN o THEN o[f] ELSE V_null
MissingRequiredFields(o) ==
    \E f \in RequiredFields : ~Truthy(Field(o, f))
ValidRecipe(o) ==
    /\ ~MissingRequiredFields(o)
    /\ IsArray(Field(o, "ingredients"))
    /\ IsArray(Field(o, "instructions"))

\* The defaults for the optional fields.
V_medium == V("str", 2)
V_dinner == V("arr", 2)
V_wrapped == V("arr", 3)
SetDefaults(o) ==
    [f \in RecipeFields |->
        CASE f = "difficulty" ->
                IF Truthy(Field(o, f)) THEN o[f] ELSE V_medium
          [] f = "mealType" ->
                IF IsArray(Field(o, f)) THEN o[f]
                ELSE IF Truthy(Field(o, f)) THEN V_wrapped ELSE V_dinner
          [] OTHER -> o[f]]

\* getFallbackRecipe: the one instruction step holds the raw text, or a
\* stock sentence when the text is empty.
V_generated == V("str", 3)
StockStep == <<"Combine ingredients and cook as desired.">>
NoStep == <<"steps of the reply">>
getFallbackRecipe(text) ==
    [fields |-> [f \in RecipeFields |->
                    CASE f = "title" -> V_generated
                      [] f = "difficulty" -> V_medium
                      [] f = "mealType" -> V_dinner
                      [] OTHER -> V_array],
     step |-> IF text # <<>> THEN text ELSE StockStep]

parseRecipeResponseUnchecked(text, payload) ==
    IF JSONParses(CleanedResponse(text)) /\ payload.obj
    THEN [fields |-> payload.fields, step |-> NoStep]
    ELSE getFallbackRecipe(text)
parseRecipeResponse(text, payload) ==
    IF /\ JSONParses(CleanedResponse(text))
       /\ payload.obj
       /\ ValidRecipe(payload.fields)
    THEN [fields |-> SetDefaults(payload.fields), step |-> NoStep]
    ELSE getFallbackRecipe(text)

NoOutput == [fields |-> <<>>, step |-> <<>>]

\* The service hands the text of the first choice to parseRecipeResponse.
parseReply ==
    /\ aout = NoOutput
    /\ aout' = parseRecipeResponse(atext, apayload)
    /\ UNCHANGED <<atext, apayload>>
    /\ UNCHANGED exceptParse

ParseIdle ==
    /\ atext = <<>>
    /\ apayload = NotAnObject
    /\ aout = NoOutput

NextParse == parseReply

(***************************************************************************)
(* GENERATION AND PERSISTENCE  (generateRecipe handler)                    *)
(***************************************************************************)

MaxGenerations == 3

\* req.body.saveToDatabase: not given, or a JSON value.
V_false == V("bool", 0)
V_true == V("bool", 1)
NotGiven == V("undefined", 0)
SaveToDatabaseValues == {NotGiven, V_true, V_false, V_null, V_string}

\* const { saveToDatabase = true } = req.body; if (saveToDatabase)
SaveToDatabase(given) == IF given = NotGiven THEN TRUE ELSE Truthy(given)

NoGeneration == [pc |-> "idle", saveToDatabase |-> NotGiven, saved |-> 0]
NoGenResponse == [status |-> 0, success |-> FALSE, recipe |-> "none", id |-> 0]

\* What the handler answers after the inner try/catch: the stored document
\* if there is one in hand, else the generated recipe.
RespondFailure(saved) ==
    [status |-> 500, success |-> FALSE, recipe |-> "none", id |-> 0]
Respond(saved) ==
    [status |-> 201, success |-> TRUE,
     recipe |-> IF saved # 0 THEN "stored" ELSE "generated", id |-> saved]

\* A request that passed validation reaches the handler.
genArrive(given) ==
    /\ nreq.pc \in {"idle", "done"}
    /\ nops < MaxGenerations
    /\ nops' = nops + 1
    /\ nreq' = [pc |-> "generate", saveToDatabase |-> given, saved |-> 0]
    /\ nwrites' = 0
    /\ nres' = NoGenResponse
    /\ UNCHANGED nstore
    /\ UNCHANGED exceptGen

\* await azureOpenAIService.generateRecipe(...): a failure goes to the outer
\* catch (500); on success the handler saves if asked to, else answers.
genGenerate(ok) ==
    /\ nreq.pc = "generate"
    /\ IF ~ok
       THEN /\ nreq' = [nreq EXCEPT !.pc = "done"]
            /\ nres' = [status |-> 500, success |-> FALSE, recipe |-> "none", id |-> 0]
       ELSE IF SaveToDatabase(nreq.saveToDatabase)
       THEN /\ nreq' = [nreq EXCEPT !.pc = "create"]
            /\ UNCHANGED nres
       ELSE /\ nreq' = [nreq EXCEPT !.pc = "done"]
            /\ nres' = Respond(0)
    /\ UNCHANGED <<nstore, nwrites, nops>>
    /\ UNCHANGED exceptGen

\* await Recipe.create(...): the document is stored, or the write fails
\* (schema validation or the store) and the inner catch answers with the
\* generated recipe.
genCreate(ok) ==
    /\ nreq.pc = "create"
    /\ nwrites' = nwrites + 1
    /\ IF ok
       THEN /\ nstore' = nstore \cup {nops}
            /\ nreq' = [nreq EXCEPT !.pc = "populate", !.saved = nops]
            /\ UNCHANGED nres
       ELSE /\ UNCHANGED nstore
            /\ nreq' = [nreq EXCEPT !.pc = "done"]
            /\ nres' = Respond(0)
    /\ UNCHANGED nops
    /\ UNCHANGED exceptGen

\* await savedRecipe.populate(...): a failure is caught by the same inner
\* catch, which forgets the stored document.
genPopulate(ok) ==
    /\ nreq.pc = "populate"
    /\ nreq' = [nreq EXCEPT !.pc = "done"]
    /\ nres' = Respond(IF ok THEN nreq.saved ELSE 0)
    /\ UNCHANGED <<nstore, nwrites, nops>>
    /\ UNCHANGED exceptGen

GenIdle ==
    /\ nreq = NoGeneration
    /\ nstore = {}
    /\ nwrites = 0
    /\ nres = NoGenResponse
    /\ nops = 0

NextGen ==
    \/ \E given \in SaveToDatabaseValues : genArrive(given)
    \/ \E ok \in BOOLEAN : genGenerate(ok)
    \/ \E ok \in BOOLEAN : genCreate(ok)
    \/ \E ok \in BOOLEAN : genPopulate(ok)

(***************************************************************************)
(* ACCOUNTS  (register, login, updateProfile, changePassword, User model)  *)
(***************************************************************************)

MaxAccountOps == 3
RegisterSlots == {"g1", "g2", "g3"}
Emails == {"ann@x.io", "bob@x.io"}

\* Plaintext passwords; the last has 5 characters, the others 8.
P_first == <<"hunter22">>
P_second == <<"passw0rd">>
P_short == <<"12345">>
Passwords == {P_first, P_second, P_short}
PasswordLength(p) == IF p = P_short THEN 5 ELSE 8
RouteMinLength == 5
SchemaMinLength == 6

\* bcrypt.hash and bcrypt.compare, with the salt left out: the hash of a
\* text is that text under a tag, and hashing a hash tags it again.
Hash(text) == <<"bcrypt">> \o text
comparePassword(candidate, stored) == stored = Hash(candidate)

\* userSchema.pre("save"): the password is hashed only if the path is
\* modified, that is if the document's value differs from the loaded one.
IsModified(loaded, doc, path) == loaded[path] # doc[path]
PreSaveUserAlways(loaded, doc) == [doc EXCEPT !.password = Hash(@)]
PreSaveUser(loaded, doc) ==
    IF ~IsModified(loaded, doc, "password") THEN doc
    ELSE [doc EXCEPT !.password = Hash(@)]

\* The password validator of the schema, run on a modified path.
PasswordTooShort(loaded, doc) ==
    /\ IsModified(loaded, doc, "password")
    /\ Len(doc.password) = 1
    /\ PasswordLength(doc.password) < SchemaMinLength

\* A new document, before it is saved. `latest` is not a stored field: it
\* records the plaintext last accepted for the user.
NewUser(email, password) ==
    [email |-> email, password |-> password, latest |-> password,
     name |-> "given", avatar |-> "null", preferences |-> "given",
     isActive |-> TRUE, savedRecipes |-> <<>>, lastLoginAt |-> 0]
Unsaved == [NewUser("", <<>>) EXCEPT !.password = <<"unset">>]

FindByEmail(store, email) == {i \in DOMAIN store : store[i].email = email}

\* The errors the store and the schema raise.
BaseError ==
    [name |-> "Error", message |-> <<>>, code |-> Undef, status |-> NoStatus,
     statusCode |-> NoStatus, type |-> Undef, body |-> FALSE,
     keyValue |-> Undef, errors |-> Undef, value |-> Undef]
DuplicateKeyError(email) ==
    [BaseError EXCEPT !.name = "MongoServerError",
                      !.message = <<"E11000", "duplicate", "key", "error">>,
                      !.code = "11000",
                      !.keyValue = [field |-> "email", value |-> email]]
PasswordValidationError ==
    [BaseError EXCEPT !.name = "ValidationError",
                      !.message = <<"User", "validation", "failed">>,
                      !.errors = <<<<"Password must be at least 6 characters">>>>]

\* asyncHandler hands the error to errorHandler; the status it answers with.
AnswerOfError(err) == FinalStatus(err, TranslatedError(err))

NoRegister ==
    [pc |-> "idle", email |-> "", password |-> <<>>, status |-> 0, by |-> "none"]
NoAccountOp ==
    [op |-> "none", id |-> 0, status |-> 0, candidate |-> <<>>, before |-> <<>>]
NoAnswers == [created |-> 0, rejected |-> 0, invalid |-> 0, other |-> 0]

Count(answers, status, valid) ==
    CASE ~valid -> [answers EXCEPT !.invalid = @ + 1]
      [] status = 201 -> [answers EXCEPT !.created = @ + 1]
      [] status = 400 -> [answers EXCEPT !.rejected = @ + 1]
      [] OTHER -> [answers EXCEPT !.other = @ + 1]

\* register up to User.findOne({ email }): an existing user is answered 400.
registerFindOne(q, email, password) ==
    /\ ureq[q].pc \in {"idle", "done"}
    /\ uops < MaxAccountOps
    /\ uops' = uops + 1
    /\ PasswordLength(password) >= RouteMinLength
    /\ LET exists == FindByEmail(ustore, email) # {}
           valid == PasswordLength(password) >= SchemaMinLength
       IN /\ ureq' = [ureq EXCEPT ![q] =
                [pc |-> IF exists THEN "done" ELSE "create", email |-> email,
                 password |-> password, status |-> IF exists THEN 400 ELSE 0,
                 by |-> IF exists THEN "handler" ELSE "none"]]
          /\ uanswers' = IF exists
                         THEN [uanswers EXCEPT ![email] = Count(@, 400, valid)]
                         ELSE uanswers
    /\ UNCHANGED <<ustore, ulast>>
    /\ UNCHANGED exceptAcct

\* The unique index on email: an insert of a second document with the email
\* is refused.
UniqueIndexAbsent(store, email) == FALSE
UniqueIndexRefuses(store, email) == FindByEmail(store, email) # {}

\* await User.create(...): validation, the pre-save hook, the insert; then
\* the 201 answer. An error goes through asyncHandler to errorHandler.
registerCreate(q) ==
    /\ ureq[q].pc = "create"
    /\ LET x == ureq[q]
           doc == NewUser(x.email, x.password)
           valid == ~PasswordTooShort(Unsaved, doc)
           err == IF ~valid THEN PasswordValidationError
                  ELSE DuplicateKeyError(x.email)
           fails == ~valid \/ UniqueIndexRefuses(ustore, x.email)
           status == IF fails THEN AnswerOfError(err) ELSE 201
       IN /\ ustore' = IF fails THEN ustore
                       ELSE Append(ustore, PreSaveUser(Unsaved, doc))
          /\ ureq' = [ureq EXCEPT ![q] = [x EXCEPT !.pc = "done", !.status = status,
                          !.by = IF fails THEN "errorHandler" ELSE "handler"]]
          /\ uanswers' = [uanswers EXCEPT ![x.email] = Count(@, status, valid)]
          /\ ulast' = [op |-> "register", id |-> IF fails THEN 0 ELSE Len(ustore'),
                       status |-> status, candidate |-> x.password,
                       before |-> ustore]
    /\ UNCHANGED uops
    /\ UNCHANGED exceptAcct

\* login: findOne with the password, the active test, the comparison, the
\* save of lastLoginAt.
login(email, candidate) ==
    /\ uops < MaxAccountOps
    /\ uops' = uops + 1
    /\ LET found == FindByEmail(ustore, email)
           id == IF found = {} THEN 0 ELSE CHOOSE i \in found : \A j \in found : i <= j
           ok == /\ id # 0
                 /\ ustore[id].isActive
                 /\ comparePassword(candidate, ustore[id].password)
       IN /\ ustore' = IF ~ok THEN ustore
                       ELSE [ustore EXCEPT ![id] =
                               PreSaveUser(@, [@ EXCEPT !.lastLoginAt = 1])]
          /\ ulast' = [op |-> "login", id |-> id, status |-> IF ok THEN 200 ELSE 401,
                       candidate |-> candidate, before |-> ustore]
    /\ UNCHANGED <<ureq, uanswers>>
    /\ UNCHANGED exceptAcct

\* updateProfile: the body's keys that are allowed are handed to
\* findByIdAndUpdate, which runs no save hook.
AllowedUpdatesAny ==
    {"name", "preferences", "avatar", "email", "password", "isActive",
     "savedRecipes", "lastLoginAt"}
AllowedUpdates == {"name", "preferences", "avatar"}
BodyKeys ==
    {"name", "preferences", "avatar", "email", "password", "isActive",
     "savedRecipes", "lastLoginAt"}
BodyValue(key) ==
    CASE key = "password" -> P_second
      [] key = "isActive" -> FALSE
      [] key = "savedRecipes" -> <<"r9">>
      [] key = "lastLoginAt" -> 99
      [] OTHER -> "sent"

updateProfile(id, keys) ==
    /\ uops < MaxAccountOps
    /\ uops' = uops + 1
    /\ id \in DOMAIN ustore
    /\ LET updates == keys \cap AllowedUpdates
       IN ustore' = [ustore EXCEPT ![id] =
             [f \in DOMAIN @ |-> IF f \in updates THEN BodyValue(f) ELSE @[f]]]
    /\ ulast' = [op |-> "updateProfile", id |-> id, status |-> 200,
                 candidate |-> <<>>, before |-> ustore]
    /\ UNCHANGED <<ureq, uanswers>>
    /\ UNCHANGED exceptAcct

\* changePassword: findById with the password, the comparison (400 if it
\* fails), the assignment and save().
changePassword(id, currentPassword, newPassword) ==
    /\ uops < MaxAccountOps
    /\ uops' = uops + 1
    /\ id \in DOMAIN ustore
    /\ PasswordLength(newPassword) >= RouteMinLength
    /\ LET user == ustore[id]
           doc == [user EXCEPT !.password = newPassword]
           status == IF ~comparePassword(currentPassword, user.password) THEN 400
                     ELSE IF PasswordTooShort(user, doc)
                     THEN AnswerOfError(PasswordValidationError)
                     ELSE 200
       IN /\ ustore' = IF status # 200 THEN ustore
                       ELSE [ustore EXCEPT ![id] =
                               [PreSaveUser(user, doc) EXCEPT !.latest = newPassword]]
          /\ ulast' = [op |-> "changePassword", id |-> id, status |-> status,
                       candidate |-> newPassword, before |-> ustore]
    /\ UNCHANGED <<ureq, uanswers>>
    /\ UNCHANGED exceptAcct

AcctIdle ==
    /\ ustore = <<>>
    /\ ureq = [q \in RegisterSlots |-> NoRegister]
    /\ ulast = NoAccountOp
    /\ uanswers = [e \in Emails |-> NoAnswers]
    /\ uops = 0

\* Register requests that overlap.
NextRegister ==
    \/ \E q \in RegisterSlots : \E e \in Emails : \E p \in Passwords :
          registerFindOne(q, e, p)
    \/ \E q \in RegisterSlots : registerCreate(q)

\* The operations on accounts, one after another.
NextAccounts ==
    \/ \E e \in Emails : \E p \in Passwords : registerFindOne("g1", e, p)
    \/ registerCreate("g1")
    \/ \E e \in Emails : \E p \in Passwords : login(e, p)
    \/ \E id \in 1..MaxAccountOps : \E keys \in SUBSET BodyKeys :
          updateProfile(id, keys)
    \/ \E id \in 1..MaxAccountOps : \E c, n \in Passwords :
          changePassword(id, c, n)

(***************************************************************************)
(* SHUTDOWN  (gracefulShutdown in server.js, SIGINT in the database config)*)
(***************************************************************************)

MaxConnections == 2
MaxSignals == 2
ForceTimeout == 10000
\* The force timer runs out after this many ticks.
ForceTicks == 2
Signals == {"SIGTERM", "SIGINT"}
Running == dexit = -1

\* The handlers registered for a signal, in the order of registration: the
\* database config is required (server.js line 8) before server.js
\* registers its own.
HandlersOfServerOnly(sig) == <<"gracefulShutdown">>
HandlersOf(sig) ==
    IF sig = "SIGINT" THEN <<"databaseConfig", "gracefulShutdown">>
    ELSE <<"gracefulShutdown">>

\* A client connects; the server accepts while it listens.
connect ==
    /\ Running
    /\ dserver = "listening"
    /\ dconns < MaxConnections
    /\ dconns' = dconns + 1
    /\ UNCHANGED <<dserver, dstore, dpending, dtimer, dsignal, dexit>>
    /\ UNCHANGED exceptDown

\* A connection ends.
disconnect ==
    /\ Running
    /\ dconns > 0
    /\ dconns' = dconns - 1
    /\ UNCHANGED <<dserver, dstore, dpending, dtimer, dsignal, dexit>>
    /\ UNCHANGED exceptDown

\* A signal arrives and its handlers run. The database config's handler
\* starts closing the store connection and waits for it; gracefulShutdown
\* calls server.close (an error, handed to the callback, if the server is
\* not listening any more) and sets the force timer.
signal(sig) ==
    /\ Running
    /\ Len(dsignal) < MaxSignals
    /\ dsignal' = Append(dsignal, sig)
    /\ LET config == "databaseConfig" \in Range(HandlersOf(sig))
       IN /\ dstore' = IF config /\ dstore = "open" THEN "closing" ELSE dstore
          /\ dpending' = dpending
                \cup (IF config THEN {"databaseConfig"} ELSE {})
                \cup (IF dserver # "listening" THEN {"closeError"} ELSE {})
    /\ dserver' = IF dserver = "listening" THEN "closing" ELSE dserver
    /\ dtimer' = IF dtimer = -1 THEN 0 ELSE dtimer
    /\ UNCHANGED <<dconns, dexit>>
    /\ UNCHANGED exceptDown

\* The server has closed once no connection is open; its callback starts
\* closing the store connection.
serverClosed ==
    /\ Running
    /\ dserver = "closing"
    /\ dconns = 0
    /\ dserver' = "closed"
    /\ dstore' = IF dstore = "open" THEN "closing" ELSE dstore
    /\ dpending' = dpending \cup {"gracefulShutdown"}
    /\ UNCHANGED <<dconns, dtimer, dsignal, dexit>>
    /\ UNCHANGED exceptDown

\* The store connection finishes closing.
storeClosed ==
    /\ Running
    /\ dstore = "closing"
    /\ dstore' = "closed"
    /\ UNCHANGED <<dserver, dconns, dpending, dtimer, dsignal, dexit>>
    /\ UNCHANGED exceptDown

\* What waits for the closed store connection goes on: process.exit(0) in
\* both handlers. server.close's callback with an error: process.exit(1).
exitAfter(who) ==
    /\ Running
    /\ who \in dpending
    /\ who # "closeError" => dstore = "closed"
    /\ dexit' = IF who = "closeError" THEN 1 ELSE 0
    /\ UNCHANGED <<dserver, dconns, dstore, dpending, dtimer, dsignal>>
    /\ UNCHANGED exceptDown

\* Time passes on the force timer.
forceTick ==
    /\ Running
    /\ dtimer \in 0..(ForceTicks - 1)
    /\ dtimer' = dtimer + 1
    /\ UNCHANGED <<dserver, dconns, dstore, dpending, dsignal, dexit>>
    /\ UNCHANGED exceptDown

\* setTimeout(..., 10000): process.exit(1)
forceExit ==
    /\ Running
    /\ dtimer = ForceTicks
    /\ dexit' = 1
    /\ UNCHANGED <<dserver, dconns, dstore, dpending, dtimer, dsignal>>
    /\ UNCHANGED exceptDown

DownIdle ==
    /\ dserver = "listening"
    /\ dconns = 0
    /\ dstore = "open"
    /\ dpending = {}
    /\ dtimer = -1
    /\ dsignal = <<>>
    /\ dexit = -1

NextShutdown ==
    \/ connect
    \/ disconnect
    \/ \E sig \in Signals : signal(sig)
    \/ serverClosed
    \/ storeClosed
    \/ \E who \in {"databaseConfig", "gracefulShutdown", "closeError"} : exitAfter(who)
    \/ forceTick
    \/ forceExit

(***************************************************************************)
(* RECIPE FETCH  (getRecipe, incrementViews, getRecipes)                   *)
(***************************************************************************)

MaxFetches == 3
FetchSlots == {"v1", "v2"}
Anonymous == "anonymous"
Requesters == {Anonymous} \cup Users

\* The collection: a public and a private recipe of u1.
FetchedRecipes ==
    <<[id |-> 1, isPublic |-> TRUE, createdBy |-> "u1", views |-> 0,
       inputIngredients |-> <<W_Chicken>>, createdAt |-> 1],
      [id |-> 2, isPublic |-> FALSE, createdBy |-> "u1", views |-> 0,
       inputIngredients |-> <<W_rice>>, createdAt |-> 2]>>

NoFetch ==
    [pc |-> "idle", who |-> Anonymous, id |-> 1, views |-> 0, status |-> 0,
     wrote |-> FALSE]

\* recipe.createdBy._id.toString() !== req.user._id.toString(), with !req.user
IsCreator(recipe, who) == who # Anonymous /\ recipe.createdBy = who

\* The access test of getRecipe.
AccessDeniedToAnonymous(recipe, who) == ~recipe.isPublic /\ who = Anonymous
AccessDenied(recipe, who) == ~recipe.isPublic /\ ~IsCreator(recipe, who)

\* getRecipe up to the access test, after Recipe.findById.
fetchFind(q, who, id) ==
    /\ vreq[q].pc \in {"idle", "done"}
    /\ vops < MaxFetches
    /\ vops' = vops + 1
    /\ LET recipe == vstore[id]
       IN vreq' = [vreq EXCEPT ![q] =
             [pc |-> IF AccessDenied(recipe, who) THEN "done"
                     ELSE IF IsCreator(recipe, who) THEN "userData"
                     ELSE "incrementViews",
              who |-> who, id |-> id, views |-> recipe.views,
              status |-> IF AccessDenied(recipe, who) THEN 403 ELSE 0,
              wrote |-> FALSE]]
    /\ UNCHANGED <<vstore, vserved, vlisted, vfailed>>
    /\ UNCHANGED exceptFetch

\* The fetches that count: served, and not to the creator.
Served(served, x) ==
    IF IsCreator(vstore[x.id], x.who) THEN served
    ELSE [served EXCEPT ![x.id] = @ + 1]

\* await recipe.incrementViews(): this.views += 1 on the loaded document,
\* then save(), which sets the stored views to that number. An anonymous
\* requester is answered right after.
fetchIncrementViews(q, ok) ==
    /\ vreq[q].pc = "incrementViews"
    /\ LET x == vreq[q]
       IN /\ vstore' = IF ok THEN [vstore EXCEPT ![x.id].views = x.views + 1]
                       ELSE vstore
          /\ vreq' = [vreq EXCEPT ![q] =
                IF ~ok THEN [x EXCEPT !.pc = "done", !.status = 500]
                ELSE IF x.who = Anonymous
                THEN [x EXCEPT !.pc = "done", !.status = 200, !.wrote = TRUE,
                               !.views = @ + 1]
                ELSE [x EXCEPT !.pc = "userData", !.wrote = TRUE, !.views = @ + 1]]
          /\ vserved' = IF ok /\ x.who = Anonymous THEN Served(vserved, x)
                        ELSE vserved
          /\ vfailed' = (vfailed \/ ~ok)
    /\ UNCHANGED <<vlisted, vops>>
    /\ UNCHANGED exceptFetch

\* await User.findById(req.user._id) for the user's own data, and the answer.
fetchUserData(q, ok) ==
    /\ vreq[q].pc = "userData"
    /\ vreq' = [vreq EXCEPT ![q] =
                  [@ EXCEPT !.pc = "done", !.status = IF ok THEN 200 ELSE 500]]
    /\ vserved' = IF ok THEN Served(vserved, vreq[q]) ELSE vserved
    /\ vfailed' = (vfailed \/ ~ok)
    /\ UNCHANGED <<vstore, vlisted, vops>>
    /\ UNCHANGED exceptFetch

\* getRecipes: Recipe.find({ isPublic: true, ... })
ListFilter(recipe) == recipe.isPublic
fetchList ==
    /\ vops < MaxFetches
    /\ vops' = vops + 1
    /\ vlisted' = [kind |-> "list",
                   recipes |-> SelectSeq(vstore, ListFilter)]
    /\ UNCHANGED <<vstore, vreq, vserved, vfailed>>
    /\ UNCHANGED exceptFetch

\* The ingredient matcher over the same collection.
fetchSearch(ingredients, minMatch) ==
    /\ vops < MaxFetches
    /\ vops' = vops + 1
    /\ vlisted' = [kind |-> "search",
                   recipes |-> LET found == findByIngredients(vstore, ingredients,
                                                              10, 0, minMatch)
                               IN [i \in DOMAIN found |-> vstore[found[i].id]]]
    /\ UNCHANGED <<vstore, vreq, vserved, vfailed>>
    /\ UNCHANGED exceptFetch

FetchIdle ==
    /\ vstore = FetchedRecipes
    /\ vreq = [q \in FetchSlots |-> NoFetch]
    /\ vserved = [i \in DOMAIN FetchedRecipes |-> 0]
    /\ vlisted = [kind |-> "none", recipes |-> <<>>]
    /\ vfailed = FALSE
    /\ vops = 0

NextFetch ==
    \/ \E q \in FetchSlots : \E who \in Requesters :
          \E id \in DOMAIN FetchedRecipes : fetchFind(q, who, id)
    \/ \E q \in FetchSlots : \E ok \in BOOLEAN : fetchIncrementViews(q, ok)
    \/ \E q \in FetchSlots : \E ok \in BOOLEAN : fetchUserData(q, ok)
    \/ fetchList
    \/ \E ings \in {<<W_chicken>>, <<W_RIC>>} : \E minMatch \in MinMatches :
          fetchSearch(ings, minMatch)

(***************************************************************************)
(* SAVED RECIPES LIST  (getSavedRecipes)                                   *)
(***************************************************************************)

MaxSaved == 3
MaxPage == 3
MaxLimit == 2
SavedIds == 1..MaxSaved
Pages == 1..MaxPage
PageLimits == 1..MaxLimit

\* Math.ceil(a / b), b > 0
Ceil(a, b) == (a + b - 1) \div b

RECURSIVE SortByCreatedAtDesc(_)
\* sort: { createdAt: -1 }; a recipe's createdAt is its id here.
SortByCreatedAtDesc(ids) ==
    IF ids = {} THEN <<>>
    ELSE LET newest == CHOOSE x \in ids : \A y \in ids : y <= x
         IN <<newest>> \o SortByCreatedAtDesc(ids \ {newest})

\* populate({ path: "savedRecipes", options: { sort, skip, limit } }): the
\* array is replaced by the documents the one query returned.
Populate(saved, skip, limit) ==
    LET sorted == SortByCreatedAtDesc(Range(saved))
        rest == SubSeq(sorted, skip + 1, Len(sorted))
    IN SubSeq(rest, 1, IF Len(rest) < limit THEN Len(rest) ELSE limit)

NoPage ==
    [status |-> 0, page |-> 1, limit |-> 1, saved |-> <<>>, recipes |-> <<>>,
     totalPages |-> 0, totalRecipes |-> 0, hasNextPage |-> FALSE,
     hasPrevPage |-> FALSE]

\* user.savedRecipes.push(recipe._id) of saveRecipe, for a recipe not yet in it.
savedPush(id) ==
    /\ id \notin Range(bsaved)
    /\ bsaved' = Append(bsaved, id)
    /\ UNCHANGED bres
    /\ UNCHANGED exceptBook

getSavedRecipes(page, limit) ==
    /\ LET skip == (page - 1) * limit
           savedRecipes == Populate(bsaved, skip, limit)
           totalSaved == Len(savedRecipes)
           totalPages == Ceil(totalSaved, limit)
       IN bres' = [status |-> 200, page |-> page, limit |-> limit,
                   saved |-> bsaved, recipes |-> savedRecipes,
                   totalPages |-> totalPages, totalRecipes |-> totalSaved,
                   hasNextPage |-> page < totalPages,
                   hasPrevPage |-> page > 1]
    /\ UNCHANGED bsaved
    /\ UNCHANGED exceptBook

BookIdle ==
    /\ bsaved = <<>>
    /\ bres = NoPage

NextBook ==
    \/ \E id \in SavedIds : savedPush(id)
    \/ \E page \in Pages : \E limit \in PageLimits : getSavedRecipes(page, limit)

(***************************************************************************)
(* SPECIFICATIONS                                                          *)
(***************************************************************************)

\* The parts added after the rate limiters, idle.
RestIdle ==
    /\ AiIdle /\ ClockIdle /\ GateIdle /\ RatingIdle /\ CookingIdle
    /\ SaveIdle
    /\ ParseIdle
    /\ GenIdle
    /\ AcctIdle
    /\ DownIdle
    /\ FetchIdle
    /\ BookIdle

InitAll ==
    TimeoutIdle /\ MatcherIdle /\ ErrorIdle /\ PipelineIdle /\ RateIdle /\ RestIdle

\* The translator's inputs: any error the program raises, in either mode.
InitError ==
    /\ TimeoutIdle
    /\ MatcherIdle
    /\ eerr \in RaisedErrors
    /\ eenv \in Envs
    /\ eres = NoResponse
    /\ PipelineIdle
    /\ RateIdle
    /\ RestIdle

\* The pipeline runs in either mode.
InitPipeline ==
    /\ TimeoutIdle
    /\ MatcherIdle
    /\ ErrorIdle
    /\ preq = NoRequest
    /\ pbody = BodyUndefined
    /\ pquery = JEmpty
    /\ ppc = "idle"
    /\ pran = {}
    /\ pres = NoResponse
    /\ perr = NoError
    /\ penv \in Envs
    /\ RateIdle
    /\ RestIdle

SpecTimeout == InitAll /\ [][NextTimeout]_vars
SpecMatcher == InitAll /\ [][NextMatcher]_vars
SpecError == InitError /\ [][NextError]_vars
SpecPipeline == InitPipeline /\ [][NextPipeline]_vars
SpecRate == InitAll /\ [][NextRate]_vars
SpecAiRate == InitAll /\ [][NextAiRate]_vars
SpecRetryAfter == InitAll /\ [][NextRetryAfter]_vars
SpecGate == InitAll /\ [][NextGate]_vars
SpecRating == InitAll /\ [][NextRating]_vars
SpecCooking == InitAll /\ [][NextCooking]_vars
SpecSave == InitAll /\ [][NextSave]_vars
SpecSaveSequential == InitAll /\ [][NextSaveSequential]_vars

\* The reply parser, for every text and every value the text may carry.
InitParse ==
    /\ TimeoutIdle /\ MatcherIdle /\ ErrorIdle /\ PipelineIdle /\ RateIdle
    /\ AiIdle /\ ClockIdle /\ GateIdle /\ RatingIdle /\ CookingIdle /\ SaveIdle
    /\ GenIdle /\ AcctIdle /\ DownIdle /\ FetchIdle /\ BookIdle
    /\ atext \in RemoteTexts
    /\ apayload \in (IF T_json \in Range(atext) THEN Payloads ELSE {NotAnObject})
    /\ aout = NoOutput
SpecParse == InitParse /\ [][NextParse]_vars
SpecGen == InitAll /\ [][NextGen]_vars
SpecAccounts == InitAll /\ [][NextAccounts]_vars
SpecRegister == InitAll /\ [][NextRegister]_vars
SpecFetch == InitAll /\ [][NextFetch]_vars
SpecBook == InitAll /\ [][NextBook]_vars

\* The event loop runs what is ready: timers, and callbacks whose wait is
\* over. Connections need not end, and no signal need arrive.
SpecShutdown ==
    /\ InitAll
    /\ [][NextShutdown]_vars
    /\ WF_vars(forceTick)
    /\ WF_vars(forceExit)
    /\ WF_vars(serverClosed)
    /\ WF_vars(storeClosed)

(***************************************************************************)
(* CLAIMS                                                                  *)
(***************************************************************************)

\* C1: when the timer fires before any response was sent, exactly one response
\* is sent for the request, it is the 408, and a later attempt of the handler
\* to respond sends nothing more.
C1_TimeoutExactlyOne408 ==
    \A r \in Requests :
        /\ Len(treq[r].sent) <= 1
        /\ treq[r].guardFired => treq[r].sent = <<TimeoutStatus>>

\* C1's case: the timer fired on a silent handler, which then tried to respond.
C1_Witness ==
    \E r \in Requests :
        /\ treq[r].guardFired
        /\ treq[r].lateAttempt
        /\ treq[r].handler = "threw"

\* C4: a search returns, before pagination, exactly the public recipes whose
\* match count is at least minMatch, each with that match count.
C4_MatcherResultSet ==
    Unpaginated =>
        /\ {mres.recipes[i].id : i \in DOMAIN mres.recipes}
             = {mstore[k].id : k \in {k \in DOMAIN mstore :
                    /\ mstore[k].isPublic
                    /\ SpecMatchCount(mstore[k], mreq.ingredients) >= mreq.minMatch}}
        /\ \A i \in DOMAIN mres.recipes :
              mres.recipes[i].matchCount
                = SpecMatchCount(mstore[mres.recipes[i].id], mreq.ingredients)

\* C5: of two public recipes that both reach minMatch, the one with the higher
\* match count is returned before the other, whatever their creation times.
C5_MatcherOrdering ==
    Unpaginated =>
        \A a, b \in DOMAIN mstore :
            ( /\ mstore[a].isPublic /\ mstore[b].isPublic
              /\ SpecMatchCount(mstore[a], mreq.ingredients)
                   > SpecMatchCount(mstore[b], mreq.ingredients)
              /\ SpecMatchCount(mstore[b], mreq.ingredients) >= mreq.minMatch )
            => \E i, j \in DOMAIN mres.recipes :
                  /\ i < j
                  /\ mres.recipes[i].id = mstore[a].id
                  /\ mres.recipes[j].id = mstore[b].id

\* C6: an error that matches exactly one kind of the taxonomy is answered with
\* that kind's status; an error that matches none and carries no status, 500.
C6_ErrorTaxonomy ==
    eres # NoResponse =>
        /\ \A k \in TaxonomyKinds :
              Kinds(eerr) = {k} => eres.status = TaxonomyStatus(k)
        /\ ( /\ Kinds(eerr) = {}
             /\ eerr.status = NoStatus
             /\ eerr.statusCode = NoStatus ) => eres.status = 500

\* C6's case: an error of one kind only (a malformed identifier) that carries
\* a status of its own has been translated to the kind's status.
C6_Witness ==
    /\ eres # NoResponse
    /\ Kinds(eerr) = {"cast"}
    /\ eerr.statusCode = 503
    /\ eres.status = 404

\* C7: in production a 5xx response's message does not depend on the error's
\* own message (the same error with another message gets the same response
\* message), and the response carries neither stack nor details.
C7_ProductionGenericMessage ==
    (eres # NoResponse /\ eenv = "production" /\ eres.status >= 500) =>
        /\ \A m \in ErrorMessages :
              LET alt == errorHandler([eerr EXCEPT !.message = m], EReq, eenv)
              IN alt.status >= 500 => alt.body.message = eres.body.message
        /\ "stack" \notin DOMAIN eres.body.error
        /\ "details" \notin DOMAIN eres.body.error

\* C2: for every request that reaches a domain handler, the body the handler
\* sees has no key that begins with $ or contains a dot, at any depth, and
\* neither has the query.
C2_SanitizedAtHandler ==
    (pran \cap Handlers # {}) =>
        /\ ~HasProhibitedKey(pbody)
        /\ ~HasProhibitedKey(pquery)

\* C3: every JSON response with a non-2xx status, whatever stage produced it,
\* has success: false, a message and error.type.
C3_ErrorEnvelopeShape ==
    (ppc = "done" /\ pres.json /\ pres.status \notin 200..299) =>
        /\ "success" \in DOMAIN pres.body
        /\ pres.body.success = FALSE
        /\ "message" \in DOMAIN pres.body
        /\ "error" \in DOMAIN pres.body
        /\ "type" \in DOMAIN pres.body.error

\* C8: when the AI client fails during POST /api/recipes/generate with a
\* failure text that has an AI-provider signature, the error translator
\* answers, with 503 and the generic AI-service message.
C8_AIFailureIs503 ==
    (/\ ppc = "done"
     /\ "generateRecipe" \in pran
     /\ perr # NoError
     /\ Includes(perr.message, <<"OpenAI">>)) =>
        /\ pres.by = "errorHandler"
        /\ pres.status = AIServiceStatus
        /\ pres.body.message = AIServiceMessage

\* C9: once the content-type stage has run on a POST, PUT or PATCH request,
\* a request with no Content-Type header (an empty one counted as none) was
\* answered 400 and one whose media type is neither application/json nor
\* multipart/form-data was answered 415, by this stage and with no later
\* stage run; a request of another method was not answered by this stage.
C9_ContentTypeValidation ==
    ("validateContentType" \in pran) =>
        LET h == preq.contentType
            rejectedWith(status) ==
                /\ ppc = "done"
                /\ pres.by = "validateContentType"
                /\ pres.status = status
                /\ pran \cap LaterStages = {}
        IN IF preq.method \in {"POST", "PUT", "PATCH"}
           THEN /\ IsFalsyHeader(h) => rejectedWith(400)
                /\ (/\ ~IsFalsyHeader(h)
                    /\ MediaType(h.value) \notin
                         {<<"application/json">>, <<"multipart/form-data">>})
                       => rejectedWith(415)
           ELSE ppc = "done" => pres.by # "validateContentType"

\* C10: in one window a limiter lets at most its max of a client's requests
\* through (100 under /api/, 5 on register and login together); a request
\* counted beyond the max gets 429 and its handler is not invoked; and a
\* count grows only by a request of its own client at its own limiter.
C10_RateLimits ==
    /\ [](/\ \A c \in Clients :
               /\ rpassed["api"][c] <= ApiMax
               /\ rpassed["auth"][c] <= AuthMax
          /\ rlast.policy \in Policies =>
               /\ rlast.totalHits > Max(rlast.policy) =>
                    rlast.status = 429 /\ ~rlast.handler
               /\ rlast.handler => rlast.totalHits <= Max(rlast.policy))
    /\ [][\A p \in Policies : \A c \in Clients :
            rhits'[p][c] > rhits[p][c] =>
                /\ rlast'.client = c
                /\ rlast'.policy = p
                /\ \A p2 \in Policies : \A c2 \in Clients :
                      <<p2, c2>> # <<p, c>> => rhits'[p2][c2] = rhits[p2][c2]
                /\ \A p2 \in Policies : \A c2 \in Clients :
                      <<p2, c2>> # <<p, c>> => rpassed'[p2][c2] = rpassed[p2][c2]]_vars

C10_Witness ==
    /\ rhits["api"][BusyClient] > ApiMax
    /\ rhits["auth"][BusyClient] > AuthMax
    /\ rpassed["api"][BusyClient] = ApiMax
    /\ rpassed["auth"][BusyClient] = AuthMax
    /\ rlast.client = "b"
    /\ rlast.handler

\* C11: for each client at most 10 requests to POST /api/recipes/generate
\* reach the handler within one minute; the 11th gets 429.
C11_AiRateLimit ==
    \A c \in Clients : rgen[c] <= AiMax

\* C12: the retryAfter of every 429 rate-limit body is the number of seconds
\* left until the client's window resets.
C12_RetryAfterIsRemaining ==
    rretry.status = 429 => rretry.retryAfter = rretry.remaining

\* C13: on the route with the 60000 ms timeout no 408 is sent before 60000 ms
\* have elapsed, and a handler that answers before then has its response
\* delivered.
C13_RouteTimeoutOverride ==
    \A r \in Requests :
        (treq[r].route = "/test-recipe" /\ treq[r].elapsed * TickMs < RouteTimeout) =>
            /\ TimeoutStatus \notin Range(treq[r].sent)
            /\ ~treq[r].lateAttempt

\* The routes the claim names as auth-required.
C14_Routes ==
    {<<"GET", "/api/auth/me">>, <<"PUT", "/api/auth/profile">>,
     <<"PUT", "/api/auth/change-password">>, <<"POST", "/api/recipes/generate">>,
     <<"GET", "/api/recipes/saved">>, <<"POST", "/api/recipes/:id/save">>,
     <<"DELETE", "/api/recipes/:id/save">>, <<"POST", "/api/recipes/:id/rate">>}

C14_NoHeaderOnGatedRoute ==
    /\ gpc # "idle"
    /\ <<greq.method, greq.path>> \in C14_Routes
    /\ greq.authorization = "none"

C15_AverageAndTotal ==
    (\A q \in RateSlots : kreq[q].phase = "idle") =>
        /\ kdoc.totalRatings = Len(kdoc.ratings)
        /\ IF kdoc.ratings = <<>>
           THEN kdoc.averageRating[1] = 0
           ELSE SameNumber(kdoc.averageRating,
                           <<SumRatings(kdoc.ratings), Len(kdoc.ratings)>>)

\* C16: in every reachable state the ratings list holds at most one entry
\* per user.
C16_OneRatingPerUser ==
    \A i, j \in DOMAIN kdoc.ratings :
        kdoc.ratings[i].user = kdoc.ratings[j].user => i = j

\* C17: every stored recipe has cookingTime.total = cookingTime.prep +
\* cookingTime.cook, whatever total was supplied.
C17_TotalIsPrepPlusCook ==
    \A id \in RecipeIds :
        cdocs[id].exists =>
            cdocs[id].cookingTime["total"] =
                cdocs[id].cookingTime["prep"] + cdocs[id].cookingTime["cook"]

C17_Witness ==
    \E id \in RecipeIds :
        /\ cdocs[id].exists
        /\ cdocs[id].given = 99
        /\ cdocs[id].cookingTime["prep"] = 15
        /\ cdocs[id].cookingTime["cook"] = 15
        /\ cdocs[id].views > 0
        /\ cdocs[id].rated
        /\ cdocs[id].saved

\* C18: a save of a recipe that is in the user's saved set is answered 400
\* and changes neither document; after save requests made one after another
\* a user's savedRecipes holds each recipe at most once.
C18_AlreadySaved ==
    /\ \A q \in SaveSlots :
          (/\ sreq[q].phase = "done"
           /\ sreq[q].op = "save"
           /\ sreq[q].recipe # MissingRecipe
           /\ Has(sreq[q].before.saved, sreq[q].recipe)) =>
              /\ sreq[q].status = 400
              /\ susers[sreq[q].user].saved = sreq[q].before.saved
              /\ srecs[sreq[q].recipe].savedBy = sreq[q].before.savedBy
    /\ \A u \in Users : \A i, j \in DOMAIN susers[u].saved :
          susers[u].saved[i] = susers[u].saved[j] => i = j

C18_Witness ==
    /\ sreq["s1"].phase = "done"
    /\ sreq["s1"].op = "save"
    /\ sreq["s1"].status = 400
    /\ Has(sreq["s1"].before.saved, sreq["s1"].recipe)
    /\ Len(susers[sreq["s1"].user].saved) = 2

\* C19: an unsave of an existing recipe that is not in the user's saved set
\* and meets no store error is answered with success and leaves the
\* contents of savedRecipes and savedByUsers as they were.
C19_UnsaveNotSaved ==
    \A q \in SaveSlots :
        (/\ sreq[q].phase = "done"
         /\ sreq[q].op = "unsave"
         /\ sreq[q].recipe # MissingRecipe
         /\ ~Has(sreq[q].before.saved, sreq[q].recipe)
         /\ sreq[q].status # 500) =>
            /\ sreq[q].status = 200
            /\ susers[sreq[q].user].saved = sreq[q].before.saved
            /\ srecs[sreq[q].recipe].savedBy = sreq[q].before.savedBy

\* C20: when no request is in flight and no store write has failed, r is in
\* u's savedRecipes exactly if u is in r's savedByUsers.
C20_SaveRelationConsistent ==
    (/\ \A q \in SaveSlots : sreq[q].phase \in {"idle", "done"}
     /\ ~sfailed) =>
        \A u \in Users : \A r \in RecipeIds :
            Has(susers[u].saved, r) <=> Has(srecs[r].savedBy, u)

\* What C21 speaks of: the reply is parsed; the cleaned text is a JSON object
\* that has the three required fields, the two lists being arrays.
C21_Parsed == aout # NoOutput
C21_HasRequired(nonEmptyTitle) ==
    /\ JSONParses(CleanedResponse(atext))
    /\ apayload.obj
    /\ RequiredFields \subseteq DOMAIN apayload.fields
    /\ IsArray(apayload.fields["ingredients"])
    /\ IsArray(apayload.fields["instructions"])
    /\ nonEmptyTitle => Truthy(apayload.fields["title"])
C21_IsRecipe ==
    /\ DOMAIN aout.fields = RecipeFields
    /\ IsArray(aout.fields["ingredients"])
    /\ IsArray(aout.fields["instructions"])
C21_IsReplyBackFilled ==
    /\ aout.step = NoStep
    /\ \A f \in RequiredFields : aout.fields[f] = apayload.fields[f]
    /\ \A f \in OptionalFields \cap DOMAIN apayload.fields :
          Truthy(apayload.fields[f]) /\ f # "mealType" =>
              aout.fields[f] = apayload.fields[f]
C21_IsPlaceholder ==
    /\ aout.fields["title"] = V_generated
    /\ atext # <<>> => aout.step = atext

C22_PersistenceFallback ==
    nreq.pc = "done" =>
        /\ (nwrites = 1 /\ nreq.saved = 0) =>
              /\ nres.status = 201
              /\ nres.success
              /\ nres.recipe = "generated"
              /\ nops \notin nstore
        /\ nreq.saveToDatabase = V_false => nwrites = 0

C22_Witness ==
    /\ nreq.pc = "done"
    /\ nwrites = 1
    /\ nreq.saved = 0
    /\ nres.status = 201
    /\ nstore = {1}
    /\ nops = 3

\* C23: the stored credential of every user is the hash of the plaintext
\* last accepted for the user (by register or a successful changePassword),
\* whatever logins and profile updates came between; a login with that
\* plaintext is answered 200 and a login with any other 401.
C23_CredentialHash ==
    /\ \A i \in DOMAIN ustore : ustore[i].password = Hash(ustore[i].latest)
    /\ (ulast.op = "login" /\ ulast.id # 0) =>
          ulast.status = (IF ulast.candidate = ustore[ulast.id].latest
                          THEN 200 ELSE 401)

C23_Witness ==
    /\ ulast.op = "login"
    /\ ulast.status = 200
    /\ ulast.candidate = P_second
    /\ ureq["g1"].password = P_first
    /\ ustore[ulast.id].password = Hash(P_second)

\* C24: whatever the interleaving of register requests with one email, at
\* most one user has the email, no request is answered with anything but 201
\* or 400, and once none is in flight exactly one has been answered 201.
C24_EmailUnique ==
    \A e \in Emails :
        /\ Cardinality(FindByEmail(ustore, e)) <= 1
        /\ uanswers[e].other = 0
        /\ (/\ \A q \in RegisterSlots : ureq[q].pc = "create" => ureq[q].email # e
            /\ uanswers[e].created + uanswers[e].rejected > 0) =>
               uanswers[e].created = 1

C24_Witness ==
    /\ \A q \in RegisterSlots :
          ureq[q].pc = "done" /\ ureq[q].email = "ann@x.io"
    /\ ureq["g1"].status = 201
    /\ ureq["g2"].status = 400 /\ ureq["g2"].by = "errorHandler"
    /\ ureq["g3"].status = 400 /\ ureq["g3"].by = "handler"
    /\ ureq["g2"].password # P_short

C25_StopsAccepting == dsignal # <<>> => dserver # "listening"
C25_StoreAfterServer == dstore # "open" => dserver = "closed"
C25_Exits == (dsignal # <<>>) ~> ~Running
C25_GracefulShutdown ==
    /\ [](C25_StopsAccepting /\ C25_StoreAfterServer)
    /\ C25_Exits

\* C26: a save whose write of the user succeeded and whose write of the
\* recipe failed is answered 500 and leaves the user's side only; a later
\* save of that recipe by that user is answered 400 and leaves savedByUsers
\* without the user; an unsave that succeeds leaves neither side.
C26_OneSided(q) ==
    /\ Has(sreq[q].before.saved, sreq[q].recipe)
    /\ ~Has(sreq[q].before.savedBy, sreq[q].user)
C26_PartialSaveNotRepaired ==
    \A q \in SaveSlots :
        (sreq[q].phase = "done" /\ sreq[q].recipe # MissingRecipe) =>
            LET saved == susers[sreq[q].user].saved
                savedBy == srecs[sreq[q].recipe].savedBy
            IN /\ (/\ sreq[q].op = "save"
                    /\ ~Has(sreq[q].before.saved, sreq[q].recipe)
                    /\ ~Has(sreq[q].before.savedBy, sreq[q].user)
                    /\ Has(saved, sreq[q].recipe)
                    /\ sreq[q].status # 200) =>
                       sreq[q].status = 500 /\ ~Has(savedBy, sreq[q].user)
               /\ (sreq[q].op = "save" /\ C26_OneSided(q)) =>
                       /\ sreq[q].status = 400
                       /\ Has(saved, sreq[q].recipe)
                       /\ ~Has(savedBy, sreq[q].user)
               /\ (sreq[q].op = "unsave" /\ sreq[q].status = 200) =>
                       ~Has(saved, sreq[q].recipe) /\ ~Has(savedBy, sreq[q].user)

C26_Witness ==
    /\ sreq["s1"].phase = "done"
    /\ sreq["s1"].op = "save"
    /\ sreq["s1"].status = 400
    /\ C26_OneSided("s1")
    /\ sfailed

\* C27: once no fetch is in flight (and no store operation has failed), the
\* stored views of every recipe is the number of fetches served to
\* requesters other than its creator.
C27_ViewsExact ==
    (/\ \A q \in FetchSlots : vreq[q].pc \in {"idle", "done"}
     /\ ~vfailed) =>
        \A i \in DOMAIN vstore : vstore[i].views = vserved[i]

\* C28: a recipe that is not public is served to its creator only; any other
\* requester is answered 403 and the request writes nothing; the list and
\* the ingredient search return public recipes only.
C28_PrivateAccess ==
    /\ \A q \in FetchSlots :
          (vreq[q].pc = "done" /\ ~vstore[vreq[q].id].isPublic) =>
              IF IsCreator(vstore[vreq[q].id], vreq[q].who)
              THEN vreq[q].status \in {200, 500} /\ ~vreq[q].wrote
              ELSE vreq[q].status = 403 /\ ~vreq[q].wrote
    /\ \A i \in DOMAIN vstore : ~vstore[i].isPublic => vstore[i].views = 0
    /\ \A i \in DOMAIN vlisted.recipes : vlisted.recipes[i].isPublic

C28_Witness ==
    /\ vreq["v1"].pc = "done" /\ vreq["v1"].id = 2
    /\ vreq["v1"].who = "u2" /\ vreq["v1"].status = 403
    /\ vreq["v2"].pc = "done" /\ vreq["v2"].id = 2
    /\ vreq["v2"].who = "u1" /\ vreq["v2"].status = 200
    /\ vlisted.kind = "list" /\ Len(vlisted.recipes) = 1

\* C29: an answer of GET /api/recipes/saved reports totalRecipes equal to the
\* size of the user's whole saved set, totalPages equal to
\* ceil(totalRecipes / limit), and hasNextPage exactly when page < totalPages.
C29_Pagination ==
    bres.status = 200 =>
        /\ bres.totalRecipes = Len(bres.saved)
        /\ bres.totalPages = Ceil(Len(bres.saved), bres.limit)
        /\ bres.hasNextPage <=> (bres.page < Ceil(Len(bres.saved), bres.limit))

====
